---- MODULE Spec2Model ----
(***************************************************************************)
(* A model of dawn-stdlib (src/src/lib.rs): the handshake                  *)
(* (gen_init_request, parse_init_request, accept_init_request,             *)
(* parse_init_response) and the steady-state operations (send_msg,         *)
(* parse_msg) over a symbolic model of the dawn_crypto provider.           *)
(*                                                                         *)
(* Representation.  A byte string is a sequence of numbers 0..255, a text  *)
(* is a sequence of character codes (ASCII).  Option values are None = <<>>*)
(* and Some(x) = <<x>>.  A Result is a record with a field ok; an Err      *)
(* carries err (the message), pre (whether the message carries the         *)
(* "@dawn-stdlib: " prefix that the error! macro adds) and panic (the call *)
(* did not return at all).                                                 *)
(***************************************************************************)
EXTENDS Integers, Sequences, FiniteSets, TLC

(***************************************************************************)
(* Bounds of the model.                                                    *)
(***************************************************************************)
\* records that send_msg may produce in one conversation (both directions)
MaxMsgs == 3

(***************************************************************************)
(* Option and Result.                                                      *)
(***************************************************************************)
None == <<>>
Some(x) == <<x>>
is_some(o) == o # <<>>
is_none(o) == o = <<>>
unwrap(o) == o[1]
\* unwrap_or with a blank in place of the given default
unwrap_or_Blank(o, d) == IF o = <<>> THEN <<32>> ELSE o[1]
unwrap_or(o, d) == IF o = <<>> THEN d ELSE o[1]

\* lib.rs:35-39, the error! macro: Err("@dawn-stdlib: " + msg)
error(msg) == [ok |-> FALSE, err |-> msg, pre |-> TRUE, panic |-> FALSE]
\* an Err of the crypto provider, handed on unchanged (return Err(err))
ProviderErr(msg) == [ok |-> FALSE, err |-> msg, pre |-> FALSE, panic |-> FALSE]
\* no value at all: the call panics (unwrap of a None)
Panic(msg) == [ok |-> FALSE, err |-> msg, pre |-> FALSE, panic |-> TRUE]

(***************************************************************************)
(* Characters used by the codecs.                                          *)
(***************************************************************************)
LF == 10
CR == 13
QUOTE == 34
PLUS == 43
BACKSLASH == 92

Last(s) == s[Len(s)]
Front(s) == SubSeq(s, 1, Len(s) - 1)

(***************************************************************************)
(* hex::encode / hex::decode.                                              *)
(***************************************************************************)
HexChar(n) == IF n < 10 THEN 48 + n ELSE 87 + n
HexVal(c) == IF c >= 48 /\ c <= 57 THEN c - 48
             ELSE IF c >= 97 /\ c <= 102 THEN c - 87
             ELSE IF c >= 65 /\ c <= 70 THEN c - 55
             ELSE -1

RECURSIVE encode(_)
encode(bytes) ==
  IF bytes = <<>> THEN <<>>
  ELSE <<HexChar(Head(bytes) \div 16), HexChar(Head(bytes) % 16)>> \o encode(Tail(bytes))

RECURSIVE HexBytes(_)
HexBytes(s) ==
  IF s = <<>> THEN <<>>
  ELSE <<HexVal(s[1]) * 16 + HexVal(s[2])>> \o HexBytes(SubSeq(s, 3, Len(s)))

\* Ok(bytes) or Err: odd length or a character that is no hex digit
decode(s) ==
  IF Len(s) % 2 = 1 \/ \E i \in 1..Len(s) : HexVal(s[i]) = -1
  THEN [ok |-> FALSE]
  ELSE [ok |-> TRUE, val |-> HexBytes(s)]

(***************************************************************************)
(* base64 STANDARD_NO_PAD: the standard alphabet, no padding, canonical    *)
(* trailing bits.                                                          *)
(***************************************************************************)
B64Char(i) == IF i < 26 THEN 65 + i
              ELSE IF i < 52 THEN 97 + (i - 26)
              ELSE IF i < 62 THEN 48 + (i - 52)
              ELSE IF i = 62 THEN 43 ELSE 47
B64Val(c) == IF c >= 65 /\ c <= 90 THEN c - 65
             ELSE IF c >= 97 /\ c <= 122 THEN c - 97 + 26
             ELSE IF c >= 48 /\ c <= 57 THEN c - 48 + 52
             ELSE IF c = 43 THEN 62
             ELSE IF c = 47 THEN 63
             ELSE -1

RECURSIVE BASE64_encode(_)
BASE64_encode(b) ==
  IF Len(b) = 0 THEN <<>>
  ELSE IF Len(b) = 1 THEN
    LET n == b[1] * 16 IN <<B64Char(n \div 64), B64Char(n % 64)>>
  ELSE IF Len(b) = 2 THEN
    LET n == (b[1] * 256 + b[2]) * 4
    IN  <<B64Char(n \div 4096), B64Char((n \div 64) % 64), B64Char(n % 64)>>
  ELSE
    LET n == b[1] * 65536 + b[2] * 256 + b[3]
    IN  <<B64Char(n \div 262144), B64Char((n \div 4096) % 64),
          B64Char((n \div 64) % 64), B64Char(n % 64)>>
        \o BASE64_encode(SubSeq(b, 4, Len(b)))

RECURSIVE B64Bytes(_)
B64Bytes(s) ==
  IF Len(s) = 0 THEN <<>>
  ELSE IF Len(s) = 2 THEN
    <<(B64Val(s[1]) * 64 + B64Val(s[2])) \div 16>>
  ELSE IF Len(s) = 3 THEN
    LET n == (B64Val(s[1]) * 4096 + B64Val(s[2]) * 64 + B64Val(s[3])) \div 4
    IN  <<n \div 256, n % 256>>
  ELSE
    LET n == B64Val(s[1]) * 262144 + B64Val(s[2]) * 4096
             + B64Val(s[3]) * 64 + B64Val(s[4])
    IN  <<n \div 65536, (n \div 256) % 256, n % 256>>
        \o B64Bytes(SubSeq(s, 5, Len(s)))

\* Ok(bytes) or Err: a character outside the alphabet (padding included), a
\* length of 1 mod 4, or trailing bits that are not zero
BASE64_decode(s) ==
  IF \/ \E i \in 1..Len(s) : B64Val(s[i]) = -1
     \/ Len(s) % 4 = 1
     \/ (Len(s) % 4 = 2 /\ B64Val(Last(s)) % 16 # 0)
     \/ (Len(s) % 4 = 3 /\ B64Val(Last(s)) % 4 # 0)
  THEN [ok |-> FALSE]
  ELSE [ok |-> TRUE, val |-> B64Bytes(s)]

(***************************************************************************)
(* str::parse::<u8>: an optional '+', then one or more decimal digits, the *)
(* value at most 255.                                                      *)
(***************************************************************************)
IsDigit(c) == c >= 48 /\ c <= 57

RECURSIVE DecimalValue(_)
DecimalValue(s) ==
  IF s = <<>> THEN 0 ELSE DecimalValue(Front(s)) * 10 + (Last(s) - 48)

parse_u8(s) ==
  LET digits == IF s # <<>> /\ s[1] = PLUS THEN Tail(s) ELSE s
  IN  IF \/ digits = <<>>
         \/ \E i \in 1..Len(digits) : ~IsDigit(digits[i])
         \/ DecimalValue(digits) > 255
      THEN [ok |-> FALSE]
      ELSE [ok |-> TRUE, val |-> DecimalValue(digits)]

(***************************************************************************)
(* str::lines: the text is cut after every line feed; a piece loses its    *)
(* line feed and, with it, a carriage return before it.  The last piece    *)
(* needs no line feed, and an empty last piece is no line.                 *)
(***************************************************************************)
RECURSIVE IndexOf(_, _, _)
IndexOf(s, c, i) ==
  IF i > Len(s) THEN 0 ELSE IF s[i] = c THEN i ELSE IndexOf(s, c, i + 1)

StripCR(l) == IF l # <<>> /\ Last(l) = CR THEN Front(l) ELSE l

RECURSIVE lines(_)
lines(s) ==
  IF s = <<>> THEN <<>>
  ELSE LET i == IndexOf(s, LF, 1)
       IN  IF i = 0 THEN <<s>>
           ELSE <<StripCR(SubSeq(s, 1, i - 1))>> \o lines(SubSeq(s, i + 1, Len(s)))

(***************************************************************************)
(* serde_json string escaping: '"' and '\' get a backslash, line feed and  *)
(* carriage return become \n and \r.  JsonUnescape is the parser's side.   *)
(***************************************************************************)
RECURSIVE JsonEscape(_)
JsonEscape(s) ==
  IF s = <<>> THEN <<>>
  ELSE (CASE Head(s) = QUOTE -> <<BACKSLASH, QUOTE>>
          [] Head(s) = BACKSLASH -> <<BACKSLASH, BACKSLASH>>
          [] Head(s) = LF -> <<BACKSLASH, 110>>
          [] Head(s) = CR -> <<BACKSLASH, 114>>
          [] OTHER -> <<Head(s)>>) \o JsonEscape(Tail(s))

\* whether s is the inside of a JSON string literal
RECURSIVE JsonStringOk(_)
JsonStringOk(s) ==
  IF s = <<>> THEN TRUE
  ELSE IF Head(s) = BACKSLASH
       THEN /\ Len(s) >= 2
            /\ s[2] \in {QUOTE, BACKSLASH, 110, 114}
            /\ JsonStringOk(SubSeq(s, 3, Len(s)))
       ELSE /\ Head(s) \notin {QUOTE, LF, CR}
            /\ JsonStringOk(Tail(s))

RECURSIVE JsonUnescape(_)
JsonUnescape(s) ==
  IF s = <<>> THEN <<>>
  ELSE IF Head(s) = BACKSLASH
       THEN <<(CASE s[2] = 110 -> LF [] s[2] = 114 -> CR [] OTHER -> s[2])>>
            \o JsonUnescape(SubSeq(s, 3, Len(s)))
       ELSE <<Head(s)>> \o JsonUnescape(Tail(s))

(***************************************************************************)
(* The dawn_crypto provider, symbolically.  Key material is a tagged byte  *)
(* string built from the random bytes that made it; a derived secret is    *)
(* the tagged concatenation of what it was derived from, so that two       *)
(* secrets are equal exactly when they were derived from the same inputs.  *)
(* Every operation that draws from the RNG takes the drawn bytes r.        *)
(***************************************************************************)
Code(r) == r[1] * 256 + r[2]

curve_keygen(r) == [pk |-> <<2>> \o r, sk |-> <<1>> \o r]
kyber_keygen(r) == [pk |-> <<5>> \o r, sk |-> <<4>> \o r]
sign_keygen(r) == [pk |-> <<10>> \o r, sk |-> <<9>> \o r]
sym_key_gen(r) == <<17>> \o r
id_gen(r) == encode(<<18>> \o r)
mdc_gen(r) == encode(<<19>> \o r)

IsKey(k, tag) == Len(k) = 3 /\ k[1] = tag

\* X25519: DH(sk_a, pk_b) = DH(sk_b, pk_a)
get_curve_secret(sk, pk) ==
  IF ~IsKey(sk, 1) \/ ~IsKey(pk, 2) THEN ProviderErr("curve secret failed")
  ELSE LET a == Tail(sk)
           b == Tail(pk)
       IN  [ok |-> TRUE,
            val |-> <<3>> \o (IF Code(a) <= Code(b) THEN a \o b ELSE b \o a)]

\* KEM encapsulation against pk with randomness r: (shared secret, ciphertext)
get_kyber_secret(pk, r) ==
  IF ~IsKey(pk, 5) THEN ProviderErr("kyber encapsulation failed")
  ELSE [ok |-> TRUE, shared |-> <<6>> \o Tail(pk) \o r, ct |-> <<7>> \o Tail(pk) \o r]

\* KEM decapsulation: the encapsulated secret under the right key, an
\* unrelated secret (implicit rejection) under another key
decrypt_kyber_secret(ct, sk) ==
  IF ~IsKey(sk, 4) \/ Len(ct) # 5 \/ ct[1] # 7
  THEN ProviderErr("kyber decapsulation failed")
  ELSE IF SubSeq(ct, 2, 3) = Tail(sk)
       THEN [ok |-> TRUE, val |-> <<6>> \o Tail(ct)]
       ELSE [ok |-> TRUE, val |-> <<8>> \o Tail(sk) \o SubSeq(ct, 4, 5)]

\* (pfs_salt, id_salt) from the two salt secrets
derive_salts(curve_secret, kyber_secret) ==
  [ok |-> TRUE,
   pfs_salt |-> <<11>> \o curve_secret \o kyber_secret,
   id_salt |-> <<12>> \o curve_secret \o kyber_secret]

\* hex(hash(seed || id)): deterministic, collision-free
predictable_mdc_gen(mdc_seed, id) == encode(<<20>> \o (mdc_seed \o id))

\* the ratchet's next key: KDF(current key || KEM secret, salt)
NextPfsKey(pfs_key, kem_shared, pfs_salt) ==
  <<13>> \o pfs_key \o kem_shared \o pfs_salt

\* warning codes of the decrypt step
warning_NONE == "NONE"
warning_SIGNATURE_ABSENT == "SIGNATURE_ABSENT"
warning_SIGNATURE_BAD == "SIGNATURE_BAD"
Warnings == {warning_NONE, warning_SIGNATURE_ABSENT, warning_SIGNATURE_BAD}

sig_sign(sk) == <<16>> \o Tail(sk)
sig_verify(pk, sig) == IsKey(pk, 10) /\ sig = <<16>> \o Tail(pk)

\* The send step.  The record carries the KEM ciphertext, the AEAD body
\* (sealed under pfs_key with the salt as associated data) and the signature,
\* empty when the caller gave no signature key.
encrypt_msg(remote_pubkey_kyber, own_seckey_sig, pfs_key, pfs_salt, msg, r) ==
  LET kem == get_kyber_secret(remote_pubkey_kyber, r)
  IN  IF ~kem.ok THEN ProviderErr("encryption failed: kyber")
      ELSE IF is_some(own_seckey_sig) /\ ~IsKey(unwrap(own_seckey_sig), 9)
      THEN ProviderErr("encryption failed: signature key")
      ELSE [ok |-> TRUE,
            ciphertext |-> [kem_ct |-> kem.ct, key |-> pfs_key, salt |-> pfs_salt,
                            pt |-> msg,
                            sig |-> IF is_some(own_seckey_sig)
                                    THEN sig_sign(unwrap(own_seckey_sig)) ELSE <<>>],
            new_pfs_key |-> NextPfsKey(pfs_key, kem.shared, pfs_salt)]

\* The receive step: (plaintext, next key, warning).  The AEAD opens only
\* under the key and salt it was sealed with.  unasked is the warning the
\* provider reports when the caller supplies no signature key.
decrypt_msg(own_seckey_kyber, remote_pubkey_sig, pfs_key, pfs_salt, ct, unasked) ==
  LET kem == decrypt_kyber_secret(ct.kem_ct, own_seckey_kyber)
  IN  IF ~kem.ok THEN ProviderErr("decryption failed: kyber")
      ELSE IF ct.key # pfs_key \/ ct.salt # pfs_salt
      THEN ProviderErr("decryption failed: aead")
      ELSE [ok |-> TRUE,
            msg |-> ct.pt,
            new_pfs_key |-> NextPfsKey(pfs_key, kem.val, pfs_salt),
            warning |-> IF is_none(remote_pubkey_sig) THEN unasked
                        ELSE IF ct.sig = <<>> THEN warning_SIGNATURE_ABSENT
                        ELSE IF sig_verify(unwrap(remote_pubkey_sig), ct.sig)
                        THEN warning_NONE
                        ELSE warning_SIGNATURE_BAD]

(***************************************************************************)
(* content_type: the codes of the five message kinds.                      *)
(***************************************************************************)
TEXT == 0
INTERNAL == 1
VOICE == 2
PICTURE == 3
LINKED_MEDIA == 4

(***************************************************************************)
(* enum Message and its JSON form (lib.rs:41-104).  A document is the      *)
(* externally tagged object serde writes: the variant's name and its       *)
(* fields, every string escaped, the u8 fields as numbers.                 *)
(***************************************************************************)
Fields(tag) ==
  CASE tag = "InitRequest" -> {"id", "mdc", "kyber", "curve_for_pfs", "sign",
                               "name", "comment", "mdc_seed"}
    [] tag = "InitAccept" -> {"kyber", "sign", "mdc"}
    [] tag = "Text" -> {"text", "mdc"}
    [] tag = "Internal" -> {"event", "event_data", "mdc"}
    [] tag = "Voice" -> {"voice", "mdc"}
    [] tag = "Picture" -> {"picture", "description", "mdc"}
    [] tag = "LinkedMedia" -> {"media_type", "media_link", "media_key",
                               "description", "mdc"}
    [] OTHER -> {}
Tags == {"InitRequest", "InitAccept", "Text", "Internal", "Voice", "Picture",
         "LinkedMedia"}
U8Fields == {"event", "media_type"}

\* serde_json::to_string(&Message)
to_string(m) ==
  [f \in DOMAIN m |-> IF f = "tag" \/ f \in U8Fields THEN m[f] ELSE JsonEscape(m[f])]

\* serde_json::from_str::<Message>
from_str(doc) ==
  IF \/ doc.tag \notin Tags
     \/ DOMAIN doc # Fields(doc.tag) \cup {"tag"}
     \/ \E f \in DOMAIN doc \ ({"tag"} \cup U8Fields) : ~JsonStringOk(doc[f])
     \/ \E f \in DOMAIN doc \cap U8Fields : doc[f] \notin 0..255
  THEN [ok |-> FALSE]
  ELSE [ok |-> TRUE,
        val |-> [f \in DOMAIN doc |->
                  IF f = "tag" \/ f \in U8Fields THEN doc[f] ELSE JsonUnescape(doc[f])]]

(***************************************************************************)
(* The operations of lib.rs.  rb is the byte that names the call's draw    *)
(* from the RNG; <<rb, j>> is the j-th value drawn in the call.            *)
(***************************************************************************)

\* lib.rs:169-178, the InitRequest plaintext
InitRequestData(id, mdc, own_pubkey_kyber, own_pubkey_curve_pfs_2, own_pubkey_sig, name, comment, mdc_seed) ==
  [tag |-> "InitRequest",
   id |-> id,
   mdc |-> mdc,
   kyber |-> encode(own_pubkey_kyber),
   curve_for_pfs |-> encode(own_pubkey_curve_pfs_2),
   sign |-> encode(own_pubkey_sig),
   name |-> name,
   comment |-> comment,
   mdc_seed |-> mdc_seed]

\* lib.rs:203, 205-207: the width of a DH public key and of a KEM ciphertext
\* on the wire
DH_PUB_LEN == 32
KEM_CT_LEN == 1568

\* Bytes on the wire: raw bytes, and behind them at most one sealed record
\* of the provider, which this library hands on as it is.
Bytes(raw, record) == [raw |-> raw, record |-> record]
\* the length in bytes; a sealed record counts as the one byte it has at least
len(bytes) == Len(bytes.raw) + (IF is_some(bytes.record) THEN 1 ELSE 0)
\* <[u8]>::split_at for mid within the raw bytes
split_at(bytes, mid) ==
  <<Bytes(SubSeq(bytes.raw, 1, mid), None),
    Bytes(SubSeq(bytes.raw, mid + 1, Len(bytes.raw)), bytes.record)>>

\* Key material is modelled by its first bytes; on the wire it has its full
\* width.
ToWire(k, width) == k \o [i \in 1..width - Len(k) |-> 0]
FromWire(bytes, n) == SubSeq(bytes.raw, 1, n)

\* the length test with the body of exactly the frame's three prefixes let
\* through
TooShort_PrefixesOnly(request_body) == len(request_body) < DH_PUB_LEN * 2 + KEM_CT_LEN

\* lib.rs:203
TooShort(request_body) == len(request_body) <= DH_PUB_LEN * 2 + KEM_CT_LEN

\* lib.rs:191-196, the bootstrap frame and the returned tuple
GenInitRequestOk(own_kyber, own_curve, own_curve_for_salt, new_pfs_key, remote_pfs_key, salts, id, mdc, mdc_seed, kyber_ct_for_salt, msg_ciphertext) ==
  [ok |-> TRUE,
   own_pubkey_kyber |-> own_kyber.pk,
   own_seckey_kyber |-> own_kyber.sk,
   own_pubkey_curve |-> own_curve.pk,
   own_seckey_curve |-> own_curve.sk,
   own_pfs_key |-> new_pfs_key,
   remote_pfs_key |-> remote_pfs_key,
   pfs_salt |-> salts.pfs_salt,
   id |-> id,
   id_salt |-> salts.id_salt,
   mdc |-> mdc,
   mdc_seed |-> mdc_seed,
   ciphertext |-> Bytes(ToWire(own_curve.pk, DH_PUB_LEN)
                          \o ToWire(own_curve_for_salt.pk, DH_PUB_LEN)
                          \o ToWire(kyber_ct_for_salt, KEM_CT_LEN),
                        Some(msg_ciphertext))]

\* gen_init_request without the test of the display name
gen_init_request_NameUnchecked(remote_pubkey_kyber, remote_pubkey_kyber_for_salt, remote_pubkey_curve, remote_pubkey_curve_pfs_2, remote_pubkey_curve_for_salt, own_pubkey_sig, own_seckey_sig, name, comment, mdc, rb) ==
  LET own_kyber == kyber_keygen(<<rb, 1>>)
      own_curve == curve_keygen(<<rb, 2>>)
      own_curve_for_salt == curve_keygen(<<rb, 3>>)
      id == id_gen(<<rb, 4>>)
      own_curve_pfs_2 == curve_keygen(<<rb, 5>>)
      own_pfs_key == get_curve_secret(own_curve.sk, remote_pubkey_curve)
      remote_pfs_key == get_curve_secret(own_curve_pfs_2.sk, remote_pubkey_curve_pfs_2)
      derive_salt_curve == get_curve_secret(own_curve_for_salt.sk,
                                            remote_pubkey_curve_for_salt)
      derive_salt_kyber == get_kyber_secret(remote_pubkey_kyber_for_salt, <<rb, 6>>)
  IN
  IF ~own_pfs_key.ok THEN own_pfs_key
  ELSE IF ~remote_pfs_key.ok THEN remote_pfs_key
  ELSE IF ~derive_salt_curve.ok THEN derive_salt_curve
  ELSE IF ~derive_salt_kyber.ok
  THEN error("failed to get kyber secret for salt derivation")
  ELSE
  LET salts == derive_salts(derive_salt_curve.val, derive_salt_kyber.shared)
      mdc_seed == encode(sym_key_gen(<<rb, 7>>))
      message_data == InitRequestData(id, mdc, own_kyber.pk, own_curve_pfs_2.pk,
                                      own_pubkey_sig, name, comment, mdc_seed)
      message == to_string(message_data)
      enc == encrypt_msg(remote_pubkey_kyber, Some(own_seckey_sig),
                         own_pfs_key.val, salts.pfs_salt, message, <<rb, 8>>)
  IN
  IF ~salts.ok THEN error("failed to derive salts")
  ELSE IF ~enc.ok THEN enc
  ELSE GenInitRequestOk(own_kyber, own_curve, own_curve_for_salt, enc.new_pfs_key,
                        remote_pfs_key.val, salts, id, mdc, mdc_seed,
                        derive_salt_kyber.ct, enc.ciphertext)

\* lib.rs:108-197
gen_init_request(remote_pubkey_kyber, remote_pubkey_kyber_for_salt, remote_pubkey_curve, remote_pubkey_curve_pfs_2, remote_pubkey_curve_for_salt, own_pubkey_sig, own_seckey_sig, name, comment, mdc, rb) ==
  IF name = <<>> THEN error("name must not be empty") ELSE
  LET own_kyber == kyber_keygen(<<rb, 1>>)
      own_curve == curve_keygen(<<rb, 2>>)
      own_curve_for_salt == curve_keygen(<<rb, 3>>)
      id == id_gen(<<rb, 4>>)
      own_curve_pfs_2 == curve_keygen(<<rb, 5>>)
      own_pfs_key == get_curve_secret(own_curve.sk, remote_pubkey_curve)
      remote_pfs_key == get_curve_secret(own_curve_pfs_2.sk, remote_pubkey_curve_pfs_2)
      derive_salt_curve == get_curve_secret(own_curve_for_salt.sk,
                                            remote_pubkey_curve_for_salt)
      derive_salt_kyber == get_kyber_secret(remote_pubkey_kyber_for_salt, <<rb, 6>>)
  IN
  IF ~own_pfs_key.ok THEN own_pfs_key
  ELSE IF ~remote_pfs_key.ok THEN remote_pfs_key
  ELSE IF ~derive_salt_curve.ok THEN derive_salt_curve
  ELSE IF ~derive_salt_kyber.ok
  THEN error("failed to get kyber secret for salt derivation")
  ELSE
  LET salts == derive_salts(derive_salt_curve.val, derive_salt_kyber.shared)
      mdc_seed == encode(sym_key_gen(<<rb, 7>>))
      message_data == InitRequestData(id, mdc, own_kyber.pk, own_curve_pfs_2.pk,
                                      own_pubkey_sig, name, comment, mdc_seed)
      message == to_string(message_data)
      enc == encrypt_msg(remote_pubkey_kyber, Some(own_seckey_sig),
                         own_pfs_key.val, salts.pfs_salt, message, <<rb, 8>>)
  IN
  IF ~salts.ok THEN error("failed to derive salts")
  ELSE IF ~enc.ok THEN enc
  ELSE GenInitRequestOk(own_kyber, own_curve, own_curve_for_salt, enc.new_pfs_key,
                        remote_pfs_key.val, salts, id, mdc, mdc_seed,
                        derive_salt_kyber.ct, enc.ciphertext)

\* the returned tuple with the two PFS keys in each other's place
ParseInitRequestOk_KeysExchanged(init_request, salts, remote_pubkey_kyber, remote_pubkey_sig, own_pfs_key, new_remote_pfs_key) ==
  [ok |-> TRUE,
   id |-> init_request.id,
   id_salt |-> salts.id_salt,
   mdc |-> init_request.mdc,
   remote_pubkey_kyber |-> remote_pubkey_kyber,
   remote_pubkey_sig |-> remote_pubkey_sig,
   own_pfs_key |-> new_remote_pfs_key,
   new_remote_pfs_key |-> own_pfs_key,
   pfs_salt |-> salts.pfs_salt,
   name |-> init_request.name,
   comment |-> init_request.comment,
   mdc_seed |-> init_request.mdc_seed]

\* the returned tuple with the two salts in each other's place
ParseInitRequestOk_SaltsExchanged(init_request, salts, remote_pubkey_kyber, remote_pubkey_sig, own_pfs_key, new_remote_pfs_key) ==
  [ok |-> TRUE,
   id |-> init_request.id,
   id_salt |-> salts.pfs_salt,
   mdc |-> init_request.mdc,
   remote_pubkey_kyber |-> remote_pubkey_kyber,
   remote_pubkey_sig |-> remote_pubkey_sig,
   own_pfs_key |-> own_pfs_key,
   new_remote_pfs_key |-> new_remote_pfs_key,
   pfs_salt |-> salts.id_salt,
   name |-> init_request.name,
   comment |-> init_request.comment,
   mdc_seed |-> init_request.mdc_seed]

\* lib.rs:262, the returned tuple
ParseInitRequestOk(init_request, salts, remote_pubkey_kyber, remote_pubkey_sig, own_pfs_key, new_remote_pfs_key) ==
  [ok |-> TRUE,
   id |-> init_request.id,
   id_salt |-> salts.id_salt,
   mdc |-> init_request.mdc,
   remote_pubkey_kyber |-> remote_pubkey_kyber,
   remote_pubkey_sig |-> remote_pubkey_sig,
   own_pfs_key |-> own_pfs_key,
   new_remote_pfs_key |-> new_remote_pfs_key,
   pfs_salt |-> salts.pfs_salt,
   name |-> init_request.name,
   comment |-> init_request.comment,
   mdc_seed |-> init_request.mdc_seed]

\* parse_init_request verifying the record's signature under the signature
\* key that the plaintext declares
parse_init_request_SignatureChecked(request_body, own_seckey_kyber, own_seckey_curve, own_seckey_curve_pfs_2, own_seckey_kyber_for_salt, own_seckey_curve_for_salt, unasked) ==
  IF TooShort(request_body) THEN error("request was too short!") ELSE
  LET remote_pubkey_curve == split_at(request_body, DH_PUB_LEN)[1]
      request_rest == split_at(request_body, DH_PUB_LEN)[2]
      remote_pubkey_curve_for_salt == split_at(request_rest, DH_PUB_LEN)[1]
      request_rest_2 == split_at(request_rest, DH_PUB_LEN)[2]
      remote_kyber_ciphertext_for_salt == split_at(request_rest_2, KEM_CT_LEN)[1]
      ciphertext == split_at(request_rest_2, KEM_CT_LEN)[2]
      remote_pfs_key == get_curve_secret(own_seckey_curve,
                                         FromWire(remote_pubkey_curve, 3))
      derive_salt_curve == get_curve_secret(own_seckey_curve_for_salt,
                                            FromWire(remote_pubkey_curve_for_salt, 3))
      derive_salt_kyber == decrypt_kyber_secret(
                             FromWire(remote_kyber_ciphertext_for_salt, 5),
                             own_seckey_kyber_for_salt)
  IN
  IF ~remote_pfs_key.ok THEN remote_pfs_key
  ELSE IF ~derive_salt_curve.ok THEN derive_salt_curve
  ELSE IF ~derive_salt_kyber.ok
  THEN error("failed to decrypt kyber secret for salt derivation")
  ELSE
  LET salts == derive_salts(derive_salt_curve.val, derive_salt_kyber.val)
      dec == IF ciphertext.raw = <<>> /\ is_some(ciphertext.record)
             THEN decrypt_msg(own_seckey_kyber, None, remote_pfs_key.val,
                              salts.pfs_salt, unwrap(ciphertext.record), unasked)
             ELSE ProviderErr("decryption failed: record")
  IN
  IF ~salts.ok THEN error("failed to derive salts")
  ELSE IF ~dec.ok THEN dec
  ELSE
  LET message == from_str(dec.msg) IN
  IF ~message.ok THEN error("json parsing failed")
  ELSE IF message.val.tag # "InitRequest"
  THEN error("content did not match init request type")
  ELSE
  LET init_request == message.val
      remote_pubkey_kyber == decode(init_request.kyber)
      remote_pubkey_curve_pfs_2 == decode(init_request.curve_for_pfs)
      remote_pubkey_sig == decode(init_request.sign)
  IN
  IF ~remote_pubkey_kyber.ok THEN error("remote kyber pubkey invalid")
  ELSE IF ~remote_pubkey_curve_pfs_2.ok THEN error("remote curve pubkey invalid")
  ELSE IF ~remote_pubkey_sig.ok THEN error("remote signature pubkey invalid")
  ELSE IF ~sig_verify(remote_pubkey_sig.val, unwrap(ciphertext.record).sig)
  THEN error("signature of the init request invalid")
  ELSE
  LET own_pfs_key == get_curve_secret(own_seckey_curve_pfs_2,
                                      remote_pubkey_curve_pfs_2.val)
  IN
  IF ~own_pfs_key.ok THEN own_pfs_key
  ELSE ParseInitRequestOk(init_request, salts, remote_pubkey_kyber.val,
                          remote_pubkey_sig.val, own_pfs_key.val, dec.new_pfs_key)

\* lib.rs:201-263
parse_init_request(request_body, own_seckey_kyber, own_seckey_curve, own_seckey_curve_pfs_2, own_seckey_kyber_for_salt, own_seckey_curve_for_salt, unasked) ==
  IF TooShort(request_body) THEN error("request was too short!") ELSE
  LET remote_pubkey_curve == split_at(request_body, DH_PUB_LEN)[1]
      request_rest == split_at(request_body, DH_PUB_LEN)[2]
      remote_pubkey_curve_for_salt == split_at(request_rest, DH_PUB_LEN)[1]
      request_rest_2 == split_at(request_rest, DH_PUB_LEN)[2]
      remote_kyber_ciphertext_for_salt == split_at(request_rest_2, KEM_CT_LEN)[1]
      ciphertext == split_at(request_rest_2, KEM_CT_LEN)[2]
      remote_pfs_key == get_curve_secret(own_seckey_curve,
                                         FromWire(remote_pubkey_curve, 3))
      derive_salt_curve == get_curve_secret(own_seckey_curve_for_salt,
                                            FromWire(remote_pubkey_curve_for_salt, 3))
      derive_salt_kyber == decrypt_kyber_secret(
                             FromWire(remote_kyber_ciphertext_for_salt, 5),
                             own_seckey_kyber_for_salt)
  IN
  IF ~remote_pfs_key.ok THEN remote_pfs_key
  ELSE IF ~derive_salt_curve.ok THEN derive_salt_curve
  ELSE IF ~derive_salt_kyber.ok
  THEN error("failed to decrypt kyber secret for salt derivation")
  ELSE
  LET salts == derive_salts(derive_salt_curve.val, derive_salt_kyber.val)
      dec == IF ciphertext.raw = <<>> /\ is_some(ciphertext.record)
             THEN decrypt_msg(own_seckey_kyber, None, remote_pfs_key.val,
                              salts.pfs_salt, unwrap(ciphertext.record), unasked)
             ELSE ProviderErr("decryption failed: record")
  IN
  IF ~salts.ok THEN error("failed to derive salts")
  ELSE IF ~dec.ok THEN dec
  ELSE
  LET message == from_str(dec.msg) IN
  IF ~message.ok THEN error("json parsing failed")
  ELSE IF message.val.tag # "InitRequest"
  THEN error("content did not match init request type")
  ELSE
  LET init_request == message.val
      remote_pubkey_kyber == decode(init_request.kyber)
      remote_pubkey_curve_pfs_2 == decode(init_request.curve_for_pfs)
      remote_pubkey_sig == decode(init_request.sign)
  IN
  IF ~remote_pubkey_kyber.ok THEN error("remote kyber pubkey invalid")
  ELSE IF ~remote_pubkey_curve_pfs_2.ok THEN error("remote curve pubkey invalid")
  ELSE IF ~remote_pubkey_sig.ok THEN error("remote signature pubkey invalid")
  ELSE
  LET own_pfs_key == get_curve_secret(own_seckey_curve_pfs_2,
                                      remote_pubkey_curve_pfs_2.val)
  IN
  IF ~own_pfs_key.ok THEN own_pfs_key
  ELSE ParseInitRequestOk(init_request, salts, remote_pubkey_kyber.val,
                          remote_pubkey_sig.val, own_pfs_key.val, dec.new_pfs_key)

\* the InitAccept plaintext with the KEM key in the signature key's field
InitAcceptData_KyberAsSign(own_pubkey_kyber, own_pubkey_sig, mdc) ==
  [tag |-> "InitAccept",
   kyber |-> encode(own_pubkey_kyber),
   sign |-> encode(own_pubkey_kyber),
   mdc |-> mdc]

\* lib.rs:272-276, the InitAccept plaintext
InitAcceptData(own_pubkey_kyber, own_pubkey_sig, mdc) ==
  [tag |-> "InitAccept",
   kyber |-> encode(own_pubkey_kyber),
   sign |-> encode(own_pubkey_sig),
   mdc |-> mdc]

\* lib.rs:267-289
accept_init_request(own_pubkey_sig, own_seckey_sig, remote_pubkey_kyber, pfs_key, pfs_salt, id, mdc_seed, rb) ==
  LET mdc == predictable_mdc_gen(mdc_seed, id)
      own_kyber == kyber_keygen(<<rb, 1>>)
      message_data == InitAcceptData(own_kyber.pk, own_pubkey_sig, mdc)
      message == to_string(message_data)
      enc == encrypt_msg(remote_pubkey_kyber, Some(own_seckey_sig), pfs_key,
                         pfs_salt, message, <<rb, 2>>)
  IN
  IF ~enc.ok THEN enc
  ELSE [ok |-> TRUE,
        new_pfs_key |-> enc.new_pfs_key,
        own_pubkey_kyber |-> own_kyber.pk,
        own_seckey_kyber |-> own_kyber.sk,
        mdc |-> mdc,
        ciphertext |-> enc.ciphertext]

\* the warning test without its second conjunct: every warning is fatal
SignatureRequiredButMissing_KeyNotAsked(warning, remote_pubkey_sig) ==
  warning # warning_NONE

\* the warning test for the absent signature alone
SignatureRequiredButMissing_AbsentOnly(warning, remote_pubkey_sig) ==
  warning = warning_SIGNATURE_ABSENT /\ is_some(remote_pubkey_sig)

\* lib.rs:300 and lib.rs:335: the warning is fatal when a key was supplied
SignatureRequiredButMissing(warning, remote_pubkey_sig) ==
  warning # warning_NONE /\ is_some(remote_pubkey_sig)

\* parse_init_response without the test of the variant: absent fields read
\* as empty strings
parse_init_response_AnyVariant(msg_ciphertext, own_seckey_kyber, remote_pubkey_sig, pfs_key, pfs_salt, unasked) ==
  LET dec == decrypt_msg(own_seckey_kyber, remote_pubkey_sig, pfs_key,
                         pfs_salt, msg_ciphertext, unasked)
  IN
  IF ~dec.ok THEN dec
  ELSE IF SignatureRequiredButMissing(dec.warning, remote_pubkey_sig)
  THEN error("CRITICAL: signature verification was requested, but the remote side did not provide a signature")
  ELSE
  LET message == from_str(dec.msg) IN
  IF ~message.ok THEN error("json parsing failed")
  ELSE
  LET init_accept == message.val
      Field(f) == IF f \in DOMAIN init_accept THEN init_accept[f] ELSE <<>>
      remote_pubkey_kyber == decode(Field("kyber"))
      remote_sig == decode(Field("sign"))
  IN
  IF ~remote_pubkey_kyber.ok THEN error("remote kyber pubkey invalid")
  ELSE IF ~remote_sig.ok THEN error("remote signature pubkey invalid")
  ELSE [ok |-> TRUE,
        remote_pubkey_kyber |-> remote_pubkey_kyber.val,
        remote_pubkey_sig |-> remote_sig.val,
        new_pfs_key |-> dec.new_pfs_key,
        mdc |-> init_accept.mdc]

\* lib.rs:294-325
parse_init_response(msg_ciphertext, own_seckey_kyber, remote_pubkey_sig, pfs_key, pfs_salt, unasked) ==
  LET dec == decrypt_msg(own_seckey_kyber, remote_pubkey_sig, pfs_key,
                         pfs_salt, msg_ciphertext, unasked)
  IN
  IF ~dec.ok THEN dec
  ELSE IF SignatureRequiredButMissing(dec.warning, remote_pubkey_sig)
  THEN error("CRITICAL: signature verification was requested, but the remote side did not provide a signature")
  ELSE
  LET message == from_str(dec.msg) IN
  IF ~message.ok THEN error("json parsing failed")
  ELSE IF message.val.tag # "InitAccept"
  THEN error("content did not match init accept type")
  ELSE
  LET init_accept == message.val
      remote_pubkey_kyber == decode(init_accept.kyber)
      remote_sig == decode(init_accept.sign)
  IN
  IF ~remote_pubkey_kyber.ok THEN error("remote kyber pubkey invalid")
  ELSE IF ~remote_sig.ok THEN error("remote signature pubkey invalid")
  ELSE [ok |-> TRUE,
        remote_pubkey_kyber |-> remote_pubkey_kyber.val,
        remote_pubkey_sig |-> remote_sig.val,
        new_pfs_key |-> dec.new_pfs_key,
        mdc |-> init_accept.mdc]

\* a content triple (content type, Option<String>, Option<Vec<u8>>)
Content(ty, text, data) == [ty |-> ty, text |-> text, data |-> data]

\* the parsed content with the voice bytes left in their base64 form
ParsedContent_VoiceUndecoded(msg) ==
  CASE msg.tag = "Text" ->
         [ok |-> TRUE, content |-> Content(TEXT, Some(msg.text), None), mdc |-> msg.mdc]
    [] msg.tag = "Internal" ->
         [ok |-> TRUE, content |-> Content(INTERNAL, Some(msg.event_data), None),
          mdc |-> msg.mdc]
    [] msg.tag = "Voice" ->
         [ok |-> TRUE, content |-> Content(VOICE, None, Some(msg.voice)), mdc |-> msg.mdc]
    [] msg.tag = "Picture" ->
         LET msg_bytes == BASE64_decode(msg.picture)
         IN  IF ~msg_bytes.ok THEN error("picture data invalid")
             ELSE [ok |-> TRUE,
                   content |-> Content(PICTURE, Some(msg.description), Some(msg_bytes.val)),
                   mdc |-> msg.mdc]
    [] msg.tag = "LinkedMedia" ->
         [ok |-> TRUE,
          content |-> Content(LINKED_MEDIA,
                              Some(msg.media_link \o <<LF>> \o msg.media_key
                                   \o <<LF>> \o msg.description),
                              Some(<<msg.media_type>>)),
          mdc |-> msg.mdc]
    [] OTHER -> error("message type not known or unexpected init message")

\* the parsed content with an InitAccept taken for a text message
ParsedContent_InitAcceptAsText(msg) ==
  IF msg.tag = "InitAccept"
  THEN [ok |-> TRUE, content |-> Content(TEXT, Some(msg.kyber), None), mdc |-> msg.mdc]
  ELSE ParsedContent_VoiceUndecoded(msg)

\* lib.rs:345-360, the content and the mdc of a parsed message
ParsedContent(msg) ==
  CASE msg.tag = "Text" ->
         [ok |-> TRUE, content |-> Content(TEXT, Some(msg.text), None), mdc |-> msg.mdc]
    [] msg.tag = "Internal" ->
         [ok |-> TRUE, content |-> Content(INTERNAL, Some(msg.event_data), None),
          mdc |-> msg.mdc]
    [] msg.tag = "Voice" ->
         LET msg_bytes == BASE64_decode(msg.voice)
         IN  IF ~msg_bytes.ok THEN error("voice message data invalid")
             ELSE [ok |-> TRUE, content |-> Content(VOICE, None, Some(msg_bytes.val)),
                   mdc |-> msg.mdc]
    [] msg.tag = "Picture" ->
         LET msg_bytes == BASE64_decode(msg.picture)
         IN  IF ~msg_bytes.ok THEN error("picture data invalid")
             ELSE [ok |-> TRUE,
                   content |-> Content(PICTURE, Some(msg.description), Some(msg_bytes.val)),
                   mdc |-> msg.mdc]
    [] msg.tag = "LinkedMedia" ->
         [ok |-> TRUE,
          content |-> Content(LINKED_MEDIA,
                              Some(msg.media_link \o <<LF>> \o msg.media_key
                                   \o <<LF>> \o msg.description),
                              Some(<<msg.media_type>>)),
          mdc |-> msg.mdc]
    [] OTHER -> error("message type not known or unexpected init message")

\* parse_msg returning an mdc it derives from what the receiver passed, in
\* place of the plaintext's
parse_msg_MdcDerived(msg_ciphertext, own_seckey_kyber, remote_pubkey_sig, pfs_key, pfs_salt, unasked) ==
  LET dec == decrypt_msg(own_seckey_kyber, remote_pubkey_sig, pfs_key,
                         pfs_salt, msg_ciphertext, unasked)
  IN
  IF ~dec.ok THEN error("decryption failed")
  ELSE IF SignatureRequiredButMissing(dec.warning, remote_pubkey_sig)
  THEN error("CRITICAL: signature verification was requested, but the remote side did not provide a signature")
  ELSE
  LET message == from_str(dec.msg) IN
  IF ~message.ok THEN error("json parsing failed")
  ELSE
  LET parsed == ParsedContent(message.val) IN
  IF ~parsed.ok THEN parsed
  ELSE [ok |-> TRUE,
        content |-> parsed.content,
        new_pfs_key |-> dec.new_pfs_key,
        mdc |-> predictable_mdc_gen(pfs_salt, pfs_key)]

\* parse_msg handing back the key it was given
parse_msg_KeyKept(msg_ciphertext, own_seckey_kyber, remote_pubkey_sig, pfs_key, pfs_salt, unasked) ==
  LET dec == decrypt_msg(own_seckey_kyber, remote_pubkey_sig, pfs_key,
                         pfs_salt, msg_ciphertext, unasked)
  IN
  IF ~dec.ok THEN error("decryption failed")
  ELSE IF SignatureRequiredButMissing(dec.warning, remote_pubkey_sig)
  THEN error("CRITICAL: signature verification was requested, but the remote side did not provide a signature")
  ELSE
  LET message == from_str(dec.msg) IN
  IF ~message.ok THEN error("json parsing failed")
  ELSE
  LET parsed == ParsedContent(message.val) IN
  IF ~parsed.ok THEN parsed
  ELSE [ok |-> TRUE,
        content |-> parsed.content,
        new_pfs_key |-> pfs_key,
        mdc |-> parsed.mdc]

\* lib.rs:329-363
parse_msg(msg_ciphertext, own_seckey_kyber, remote_pubkey_sig, pfs_key, pfs_salt, unasked) ==
  LET dec == decrypt_msg(own_seckey_kyber, remote_pubkey_sig, pfs_key,
                         pfs_salt, msg_ciphertext, unasked)
  IN
  IF ~dec.ok THEN error("decryption failed")
  ELSE IF SignatureRequiredButMissing(dec.warning, remote_pubkey_sig)
  THEN error("CRITICAL: signature verification was requested, but the remote side did not provide a signature")
  ELSE
  LET message == from_str(dec.msg) IN
  IF ~message.ok THEN error("json parsing failed")
  ELSE
  LET parsed == ParsedContent(message.val) IN
  IF ~parsed.ok THEN parsed
  ELSE [ok |-> TRUE,
        content |-> parsed.content,
        new_pfs_key |-> dec.new_pfs_key,
        mdc |-> parsed.mdc]

\* lib.rs:419-423: every remaining line followed by a line feed
RECURSIVE AppendLines(_)
AppendLines(ls) ==
  IF ls = <<>> THEN <<>> ELSE Head(ls) \o <<LF>> \o AppendLines(Tail(ls))

\* the description without the pop of its last character
Description_NoPop(text_data) ==
  AppendLines(text_data)

\* lib.rs:418-424: the description lines joined, the last line feed popped
Description(text_data) ==
  LET description == AppendLines(text_data)
  IN  IF description = <<>> THEN <<>> ELSE Front(description)

\* lib.rs:370-434, the plaintext for a content triple
MessageData(msg_type, msg_text, msg_data, mdc) ==
  CASE msg_type = TEXT ->
         IF is_none(msg_text) THEN error("no text was provided")
         ELSE [ok |-> TRUE, val |-> [tag |-> "Text", text |-> unwrap(msg_text), mdc |-> mdc]]
    [] msg_type = INTERNAL ->
         IF is_none(msg_text) THEN error("no event code was provided")
         ELSE LET event_id == parse_u8(unwrap(msg_text))
              IN  IF ~event_id.ok THEN error("invalid event code")
                  ELSE IF is_none(msg_data) THEN error("missing event data")
                  ELSE [ok |-> TRUE,
                        val |-> [tag |-> "Internal",
                                 event |-> event_id.val,
                                 event_data |-> BASE64_encode(unwrap(msg_data)),
                                 mdc |-> mdc]]
    [] msg_type = VOICE ->
         IF is_none(msg_data) THEN error("no voice data was provided")
         ELSE [ok |-> TRUE,
               val |-> [tag |-> "Voice", voice |-> BASE64_encode(unwrap(msg_data)),
                        mdc |-> mdc]]
    [] msg_type = PICTURE ->
         IF is_none(msg_data) THEN error("no picture data was provided")
         ELSE [ok |-> TRUE,
               val |-> [tag |-> "Picture",
                        picture |-> BASE64_encode(unwrap(msg_data)),
                        description |-> unwrap_or(msg_text, <<>>),
                        mdc |-> mdc]]
    [] msg_type = LINKED_MEDIA ->
         IF is_none(msg_data) THEN error("no voice data was provided")
         ELSE IF Len(unwrap(msg_data)) # 1
         THEN error(<<"expected 1 byte to identify media type, got {} bytes",
                      Len(unwrap(msg_data))>>)
         ELSE IF is_none(msg_text) THEN error("no link was provided")
         ELSE LET text_data == lines(unwrap(msg_text))
              IN  IF text_data = <<>> THEN Panic("called Option::unwrap() on a None value")
                  ELSE IF Len(text_data) < 2 THEN error("no media key was provided")
                  ELSE [ok |-> TRUE,
                        val |-> [tag |-> "LinkedMedia",
                                 media_type |-> unwrap(msg_data)[1],
                                 media_link |-> text_data[1],
                                 media_key |-> text_data[2],
                                 description |-> Description(SubSeq(text_data, 3, Len(text_data))),
                                 mdc |-> mdc]]
    [] OTHER -> error("requested content type not implemented")

\* the returned tuple with the mdc seed's own hex form for the mdc
SendMsgOk_OtherMdc(new_pfs_key, mdc, msg_ciphertext) ==
  [ok |-> TRUE, new_pfs_key |-> new_pfs_key, mdc |-> encode(mdc),
   ciphertext |-> msg_ciphertext]

\* the returned tuple with the key the record was sealed under for the new key
SendMsgOk_SealingKey(new_pfs_key, mdc, msg_ciphertext) ==
  [ok |-> TRUE, new_pfs_key |-> msg_ciphertext.key, mdc |-> mdc,
   ciphertext |-> msg_ciphertext]

\* the returned tuple with the mdc handed back as a new mdc seed as well
SendMsgOk_NewSeed(new_pfs_key, mdc, msg_ciphertext) ==
  [ok |-> TRUE, new_pfs_key |-> new_pfs_key, mdc |-> mdc, ciphertext |-> msg_ciphertext,
   mdc_seed |-> mdc]

\* lib.rs:447, the returned tuple
SendMsgOk(new_pfs_key, mdc, msg_ciphertext) ==
  [ok |-> TRUE, new_pfs_key |-> new_pfs_key, mdc |-> mdc, ciphertext |-> msg_ciphertext]

\* send_msg with the mdc taken from the message key in place of the id
send_msg_MdcFromKey(content, remote_pubkey_kyber, own_seckey_sig, pfs_key, pfs_salt, id, mdc_seed, r) ==
  LET mdc == predictable_mdc_gen(mdc_seed, pfs_key)
      message_data == MessageData(content.ty, content.text, content.data, mdc)
  IN
  IF ~message_data.ok THEN message_data
  ELSE
  LET message == to_string(message_data.val)
      enc == encrypt_msg(remote_pubkey_kyber, own_seckey_sig, pfs_key, pfs_salt,
                         message, r)
  IN
  IF ~enc.ok THEN enc
  ELSE SendMsgOk(enc.new_pfs_key, mdc, enc.ciphertext)

\* send_msg handing back the key it was given
send_msg_KeyKept(content, remote_pubkey_kyber, own_seckey_sig, pfs_key, pfs_salt, id, mdc_seed, r) ==
  LET mdc == predictable_mdc_gen(mdc_seed, id)
      message_data == MessageData(content.ty, content.text, content.data, mdc)
  IN
  IF ~message_data.ok THEN message_data
  ELSE
  LET message == to_string(message_data.val)
      enc == encrypt_msg(remote_pubkey_kyber, own_seckey_sig, pfs_key, pfs_salt,
                         message, r)
  IN
  IF ~enc.ok THEN enc
  ELSE SendMsgOk(pfs_key, mdc, enc.ciphertext)

\* lib.rs:367-448
send_msg(content, remote_pubkey_kyber, own_seckey_sig, pfs_key, pfs_salt, id, mdc_seed, r) ==
  LET mdc == predictable_mdc_gen(mdc_seed, id)
      message_data == MessageData(content.ty, content.text, content.data, mdc)
  IN
  IF ~message_data.ok THEN message_data
  ELSE
  LET message == to_string(message_data.val)
      enc == encrypt_msg(remote_pubkey_kyber, own_seckey_sig, pfs_key, pfs_salt,
                         message, r)
  IN
  IF ~enc.ok THEN enc
  ELSE SendMsgOk(enc.new_pfs_key, mdc, enc.ciphertext)

(***************************************************************************)
(* The two endpoints and the records between them.  The callers are the    *)
(* client code that tests.rs plays: Bob publishes an init bundle, Alice    *)
(* (the initiator) opens the conversation, and each side keeps the keys    *)
(* the operations return.                                                  *)
(***************************************************************************)
VARIABLES alice, bob, hs, wire, last

vars == <<alice, bob, hs, wire, last>>

\* tests.rs:29-35: Bob's init bundle and the two signature key pairs
bob_init_curve == curve_keygen(<<0, 1>>)
bob_init_curve_pfs_2 == curve_keygen(<<0, 2>>)
bob_init_kyber == kyber_keygen(<<0, 3>>)
bob_init_curve_for_salt == curve_keygen(<<0, 4>>)
bob_init_kyber_for_salt == kyber_keygen(<<0, 5>>)
bob_sig == sign_keygen(<<0, 6>>)
alice_sig == sign_keygen(<<0, 7>>)
\* tests.rs:38: the anchor mdc of Bob's handle
handle_mdc == mdc_gen(<<0, 8>>)
\* a signature key pair that belongs to neither side
other_sig == sign_keygen(<<0, 9>>)

\* the five public keys of Bob's handle (tests.rs:39)
bob_bundle ==
  [kyber |-> bob_init_kyber.pk, kyber_for_salt |-> bob_init_kyber_for_salt.pk,
   curve |-> bob_init_curve.pk, curve_pfs_2 |-> bob_init_curve_pfs_2.pk,
   curve_for_salt |-> bob_init_curve_for_salt.pk]
\* five empty byte strings in their place (tests.rs:187)
empty_bundle ==
  [kyber |-> <<>>, kyber_for_salt |-> <<>>, curve |-> <<>>, curve_pfs_2 |-> <<>>,
   curve_for_salt |-> <<>>]
Bundles == {bob_bundle, empty_bundle}

\* the display name and the comment of tests.rs:27-28, shortened
alice_name == <<97>>
alice_comment == <<LF, 104, LF, BACKSLASH, QUOTE>>

\* the RNG draws: one byte per call and caller
RbAlice(n) == 16 + n
RbBob(n) == 32 + n

Peers == {"alice", "bob"}
Peer(who) == IF who = "alice" THEN "bob" ELSE "alice"
\* the direction a peer sends in
Dir(who) == IF who = "alice" THEN "AB" ELSE "BA"
SigOf(who) == IF who = "alice" THEN alice_sig ELSE bob_sig

\* what an endpoint holds before the handshake
Idle ==
  [phase |-> "Idle", own_pubkey_kyber |-> <<>>, own_seckey_kyber |-> <<>>,
   remote_pubkey_kyber |-> <<>>, remote_pubkey_sig |-> <<>>,
   send_pfs_key |-> <<>>, recv_pfs_key |-> <<>>, pfs_salt |-> <<>>,
   id |-> <<>>, id_salt |-> <<>>, mdc_seed |-> <<>>, nsent |-> 0, nrecv |-> 0]

\* tests.rs:39: what Alice keeps of gen_init_request
AliceAfterGen(res) ==
  [Idle EXCEPT !.phase = "AwaitAccept",
               !.own_pubkey_kyber = res.own_pubkey_kyber,
               !.own_seckey_kyber = res.own_seckey_kyber,
               !.send_pfs_key = res.own_pfs_key,
               !.recv_pfs_key = res.remote_pfs_key,
               !.pfs_salt = res.pfs_salt,
               !.id = res.id,
               !.id_salt = res.id_salt,
               !.mdc_seed = res.mdc_seed,
               !.nsent = 1]

\* tests.rs:42: what Bob keeps of parse_init_request
BobAfterRequest(res) ==
  [Idle EXCEPT !.phase = "AwaitUser",
               !.remote_pubkey_kyber = res.remote_pubkey_kyber,
               !.remote_pubkey_sig = res.remote_pubkey_sig,
               !.send_pfs_key = res.own_pfs_key,
               !.recv_pfs_key = res.new_remote_pfs_key,
               !.pfs_salt = res.pfs_salt,
               !.id = res.id,
               !.id_salt = res.id_salt,
               !.mdc_seed = res.mdc_seed,
               !.nrecv = 1]

\* tests.rs:58: what Bob keeps of accept_init_request
BobAfterAccept(b, res) ==
  [b EXCEPT !.phase = "Established",
            !.own_pubkey_kyber = res.own_pubkey_kyber,
            !.own_seckey_kyber = res.own_seckey_kyber,
            !.send_pfs_key = res.new_pfs_key,
            !.nsent = 1]

\* tests.rs:66: what Alice keeps of parse_init_response
AliceAfterResponse(a, res) ==
  [a EXCEPT !.phase = "Established",
            !.remote_pubkey_kyber = res.remote_pubkey_kyber,
            !.remote_pubkey_sig = res.remote_pubkey_sig,
            !.recv_pfs_key = res.new_pfs_key,
            !.nrecv = 1]

\* tests.rs:76, 89: the sender replaces its send key by the returned one
AfterSend(p, res) ==
  [p EXCEPT !.send_pfs_key = res.new_pfs_key, !.nsent = @ + 1]

\* tests.rs:79, 93: the receiver replaces its receive key by the returned one
AfterParse(p, res) ==
  [p EXCEPT !.recv_pfs_key = res.new_pfs_key, !.nrecv = @ + 1]

\* the most recent call: none yet
NoCall == [op |-> "none"]

\* the handshake calls made so far, each with what went in and came out
NoHandshake == [gen |-> None, req |-> None, acc |-> None, resp |-> None]

Init ==
  /\ alice = Idle
  /\ bob = Idle
  /\ hs = NoHandshake
  /\ wire = [AB |-> <<>>, BA |-> <<>>]
  /\ last = NoCall

\* what Alice passes to gen_init_request (tests.rs:39)
GenIn(keys, name, comment) ==
  [keys |-> keys, own_pubkey_sig |-> alice_sig.pk, name |-> name,
   comment |-> comment, mdc |-> handle_mdc]

\* Alice calls gen_init_request (tests.rs:39)
GenInitRequest(keys, name, comment) ==
  /\ alice.phase = "Idle"
  /\ LET in == GenIn(keys, name, comment)
         res == gen_init_request(keys.kyber, keys.kyber_for_salt, keys.curve,
                                 keys.curve_pfs_2, keys.curve_for_salt,
                                 alice_sig.pk, alice_sig.sk, name, comment,
                                 handle_mdc, RbAlice(0))
     IN  /\ last' = [op |-> "gen_init_request", who |-> "alice", in |-> in, out |-> res]
         /\ IF res.ok
            THEN /\ alice' = AliceAfterGen(res)
                 /\ hs' = [hs EXCEPT !.gen = Some([in |-> in, out |-> res])]
            ELSE UNCHANGED <<alice, hs>>
  /\ UNCHANGED <<bob, wire>>

\* Bob parses the bootstrap frame with the bundle's secret keys (tests.rs:42)
ParseInitRequest(unasked) ==
  /\ bob.phase = "Idle"
  /\ is_some(hs.gen)
  /\ LET res == parse_init_request(unwrap(hs.gen).out.ciphertext, bob_init_kyber.sk,
                                   bob_init_curve.sk, bob_init_curve_pfs_2.sk,
                                   bob_init_kyber_for_salt.sk,
                                   bob_init_curve_for_salt.sk, unasked)
     IN  /\ last' = [op |-> "parse_init_request", who |-> "bob", out |-> res]
         /\ IF res.ok
            THEN /\ bob' = BobAfterRequest(res)
                 /\ hs' = [hs EXCEPT !.req = Some([out |-> res])]
            ELSE UNCHANGED <<bob, hs>>
  /\ UNCHANGED <<alice, wire>>

\* what Bob passes to accept_init_request (tests.rs:58)
AcceptIn(b) ==
  [own_pubkey_sig |-> bob_sig.pk, own_seckey_sig |-> Some(bob_sig.sk),
   remote_pubkey_kyber |-> b.remote_pubkey_kyber,
   pfs_key |-> b.send_pfs_key, pfs_salt |-> b.pfs_salt,
   id |-> b.id, mdc_seed |-> b.mdc_seed]

\* Bob accepts (tests.rs:58); the record is the first one from Bob to Alice
AcceptInitRequest ==
  /\ bob.phase = "AwaitUser"
  /\ LET in == AcceptIn(bob)
         res == accept_init_request(in.own_pubkey_sig, bob_sig.sk,
                                    in.remote_pubkey_kyber, in.pfs_key, in.pfs_salt,
                                    in.id, in.mdc_seed, RbBob(0))
     IN  /\ last' = [op |-> "accept_init_request", who |-> "bob", in |-> in, out |-> res]
         /\ IF res.ok
            THEN /\ bob' = BobAfterAccept(bob, res)
                 /\ hs' = [hs EXCEPT !.acc = Some([in |-> in, out |-> res])]
                 /\ wire' = [wire EXCEPT !.BA = Append(@, [op |-> "accept_init_request",
                                                          in |-> in, out |-> res])]
            ELSE UNCHANGED <<bob, hs, wire>>
  /\ UNCHANGED alice

\* What a receiver may pass as remote_pubkey_sig, with the warning the
\* provider reports when no key is passed: no key, the sender's key, or
\* another key.
SigChecks(sender) ==
  {<<None, w>> : w \in Warnings}
  \cup {<<Some(SigOf(sender).pk), warning_NONE>>, <<Some(other_sig.pk), warning_NONE>>}

\* what a receiver passes to a parse call
ParseIn(p, remote_pubkey_sig) ==
  [own_seckey_kyber |-> p.own_seckey_kyber, remote_pubkey_sig |-> remote_pubkey_sig,
   pfs_key |-> p.recv_pfs_key, pfs_salt |-> p.pfs_salt]

\* Alice parses the i-th record from Bob as the init response (tests.rs:66)
ParseInitResponse(i, remote_pubkey_sig, unasked) ==
  /\ alice.phase = "AwaitAccept"
  /\ i \in 1..Len(wire.BA)
  /\ LET in == ParseIn(alice, remote_pubkey_sig)
         res == parse_init_response(wire.BA[i].out.ciphertext, in.own_seckey_kyber,
                                    in.remote_pubkey_sig, in.pfs_key, in.pfs_salt,
                                    unasked)
     IN  /\ last' = [op |-> "parse_init_response", who |-> "alice", idx |-> i,
                     in |-> in, out |-> res]
         /\ IF res.ok
            THEN /\ alice' = AliceAfterResponse(alice, res)
                 /\ hs' = [hs EXCEPT !.resp = Some([out |-> res])]
            ELSE UNCHANGED <<alice, hs>>
  /\ UNCHANGED <<bob, wire>>

Endpoint(who) == IF who = "alice" THEN alice ELSE bob
NSends == Len(wire.AB) + Len(wire.BA) - (IF is_some(hs.acc) THEN 1 ELSE 0)

\* who calls send_msg with the conversation's key, salt, id and mdc seed
\* (tests.rs:76, 89); on success the record goes on the wire
SendMsg(who, content, own_seckey_sig, id, mdc_seed) ==
  /\ Endpoint(who).phase = "Established"
  /\ LET p == Endpoint(who)
         in == [content |-> content, remote_pubkey_kyber |-> p.remote_pubkey_kyber,
                own_seckey_sig |-> own_seckey_sig, pfs_key |-> p.send_pfs_key,
                pfs_salt |-> p.pfs_salt, id |-> id, mdc_seed |-> mdc_seed]
         res == send_msg(content, in.remote_pubkey_kyber, own_seckey_sig, in.pfs_key,
                         in.pfs_salt, id, mdc_seed,
                         <<IF who = "alice" THEN RbAlice(p.nsent) ELSE RbBob(p.nsent), 1>>)
     IN  /\ last' = [op |-> "send_msg", who |-> who, in |-> in, out |-> res]
         /\ IF res.ok
            THEN /\ wire' = [wire EXCEPT ![Dir(who)] =
                               Append(@, [op |-> "send_msg", in |-> in, out |-> res])]
                 /\ IF who = "alice"
                    THEN alice' = AfterSend(alice, res) /\ bob' = bob
                    ELSE bob' = AfterSend(bob, res) /\ alice' = alice
            ELSE UNCHANGED <<alice, bob, wire>>
  /\ UNCHANGED hs

\* who calls parse_msg on the i-th record sent to it, with its own receive
\* key (tests.rs:79, 93); on success it keeps the returned key
ParseMsg(who, i, remote_pubkey_sig, unasked) ==
  /\ Endpoint(who).phase \in {"AwaitAccept", "Established"}
  /\ i \in 1..Len(wire[Dir(Peer(who))])
  /\ LET p == Endpoint(who)
         in == ParseIn(p, remote_pubkey_sig)
         res == parse_msg(wire[Dir(Peer(who))][i].out.ciphertext, in.own_seckey_kyber,
                          in.remote_pubkey_sig, in.pfs_key, in.pfs_salt, unasked)
     IN  /\ last' = [op |-> "parse_msg", who |-> who, idx |-> i, in |-> in, out |-> res]
         /\ IF res.ok
            THEN IF who = "alice"
                 THEN alice' = AfterParse(alice, res) /\ bob' = bob
                 ELSE bob' = AfterParse(bob, res) /\ alice' = alice
            ELSE UNCHANGED <<alice, bob>>
  /\ UNCHANGED <<hs, wire>>

\* the content the callers of the conversation send (tests.rs:76)
SampleContents == {Content(TEXT, Some(<<72, 105>>), None)}

Next ==
  \/ GenInitRequest(bob_bundle, alice_name, alice_comment)
  \/ \E unasked \in Warnings : ParseInitRequest(unasked)
  \/ AcceptInitRequest
  \/ \E i \in 1..Len(wire.BA), k \in SigChecks("bob") : ParseInitResponse(i, k[1], k[2])
  \/ \E who \in Peers, content \in SampleContents :
     \E sk \in {None, Some(SigOf(who).sk)} :
       /\ NSends < MaxMsgs
       /\ SendMsg(who, content, sk, Endpoint(who).id, Endpoint(who).mdc_seed)
  \/ \E who \in Peers, i \in 1..MaxMsgs + 1 :
     \E k \in SigChecks(Peer(who)) :
       ParseMsg(who, i, k[1], k[2])

Spec == Init /\ [][Next]_vars

(***************************************************************************)
(* The handshake alone, over every display name and comment of a bounded   *)
(* alphabet and both bundles.                                              *)
(***************************************************************************)
\* the longest comment and the longest display name
MaxCommentLen == 3
MaxNameLen == 1

Names == UNION {[1..n -> {97, QUOTE}] : n \in 0..MaxNameLen}
Comments == UNION {[1..n -> {104, LF, BACKSLASH, QUOTE}] : n \in 0..MaxCommentLen}

NextHs ==
  \/ \E keys \in Bundles, name \in Names, comment \in Comments :
       /\ last = NoCall
       /\ GenInitRequest(keys, name, comment)
  \/ \E unasked \in Warnings : ParseInitRequest(unasked)
  \/ AcceptInitRequest
  \/ \E i \in 1..Len(wire.BA), k \in SigChecks("bob") : ParseInitResponse(i, k[1], k[2])

SpecHs == Init /\ [][NextHs]_vars

(***************************************************************************)
(* One message in an established conversation, over every content of a     *)
(* bounded alphabet.                                                       *)
(***************************************************************************)
\* the handshake of tests.rs:39-66, call by call
gen_0 ==
  gen_init_request(bob_bundle.kyber, bob_bundle.kyber_for_salt, bob_bundle.curve,
                   bob_bundle.curve_pfs_2, bob_bundle.curve_for_salt, alice_sig.pk,
                   alice_sig.sk, alice_name, alice_comment, handle_mdc, RbAlice(0))
req_0 ==
  parse_init_request(gen_0.ciphertext, bob_init_kyber.sk, bob_init_curve.sk,
                     bob_init_curve_pfs_2.sk, bob_init_kyber_for_salt.sk,
                     bob_init_curve_for_salt.sk, warning_NONE)
acc_in_0 == AcceptIn(BobAfterRequest(req_0))
acc_0 ==
  accept_init_request(acc_in_0.own_pubkey_sig, bob_sig.sk, acc_in_0.remote_pubkey_kyber,
                      acc_in_0.pfs_key, acc_in_0.pfs_salt, acc_in_0.id,
                      acc_in_0.mdc_seed, RbBob(0))
resp_in_0 == ParseIn(AliceAfterGen(gen_0), None)
resp_0 ==
  parse_init_response(acc_0.ciphertext, resp_in_0.own_seckey_kyber,
                      resp_in_0.remote_pubkey_sig, resp_in_0.pfs_key,
                      resp_in_0.pfs_salt, warning_NONE)

\* the established conversation (tests.rs:72)
InitMsg ==
  /\ alice = AliceAfterResponse(AliceAfterGen(gen_0), resp_0)
  /\ bob = BobAfterAccept(BobAfterRequest(req_0), acc_0)
  /\ hs = [gen |-> Some([in |-> GenIn(bob_bundle, alice_name, alice_comment),
                         out |-> gen_0]),
           req |-> Some([out |-> req_0]),
           acc |-> Some([in |-> acc_in_0, out |-> acc_0]),
           resp |-> Some([out |-> resp_0])]
  /\ wire = [AB |-> <<>>,
             BA |-> <<[op |-> "accept_init_request", in |-> acc_in_0, out |-> acc_0]>>]
  /\ last = [op |-> "parse_init_response", who |-> "alice", idx |-> 1,
             in |-> resp_in_0, out |-> resp_0]

\* the longest text drawn from the alphabet
MaxTextLen == 4

\* every string over the alphabet up to a length
StringsUpTo(alphabet, n) == UNION {[1..k -> alphabet] : k \in 0..n}

\* the texts of lines: every string of 'a', line feed and carriage return
\* up to MaxTextLen
LineTexts == StringsUpTo({97, LF, CR}, MaxTextLen)

\* event codes good and bad, a text of four lines as in tests.rs:148-151, a
\* text that needs escaping, a single line
SpecialTexts ==
  {<<55>>, <<PLUS, 55>>, <<48, 48, 55>>, <<50, 53, 53>>, <<50, 53, 54>>, <<45, 49>>,
   <<>>, <<97, LF, 97, LF, 97, LF, 97>>, <<QUOTE, BACKSLASH, 110>>, <<72, 105>>}

\* the byte strings: none, one to four bytes
Datas == {<<>>, <<42>>, <<1, 3>>, <<255, 0, 7>>, <<251, 239, 190, 62>>}

\* a content type code that lib.rs does not know
UnknownType ==
  CHOOSE ty \in 0..255 : ty \notin {TEXT, INTERNAL, VOICE, PICTURE, LINKED_MEDIA}

\* the contents: every type with every special text or none and every data
\* or none, and the texts of lines as Text and as LinkedMedia
Contents ==
  {Content(ty, text, data) :
     ty \in {TEXT, INTERNAL, VOICE, PICTURE, LINKED_MEDIA, UnknownType},
     text \in {None} \cup {Some(t) : t \in SpecialTexts},
     data \in {None} \cup {Some(d) : d \in Datas}}
  \cup {Content(ty, Some(t), data) :
          ty \in {TEXT, LINKED_MEDIA}, t \in LineTexts, data \in {None, Some(<<42>>)}}

\* an id later in the conversation than the first one
later_id == id_gen(<<0, 10>>)

\* no send_msg call was made yet
NoSendYet == NSends = 0 /\ last.op # "send_msg"

NextMsg ==
  \/ \E who \in Peers, content \in Contents :
       /\ NoSendYet
       /\ SendMsg(who, content, Some(SigOf(who).sk), Endpoint(who).id,
                  Endpoint(who).mdc_seed)
  \/ \E who \in Peers, content \in SampleContents :
       /\ NoSendYet
       /\ SendMsg(who, content, None, later_id, Endpoint(who).mdc_seed)
  \/ \E who \in Peers :
     \E k \in SigChecks(Peer(who)) :
       /\ NSends = 1
       /\ wire[Dir(Peer(who))] # <<>>
       /\ Last(wire[Dir(Peer(who))]).op = "send_msg"
       /\ ParseMsg(who, Len(wire[Dir(Peer(who))]), k[1], k[2])

SpecMsg == InitMsg /\ [][NextMsg]_vars

(***************************************************************************)
(* Properties.                                                             *)
(***************************************************************************)
\* whether sk is the secret key of the public key pk
KeyPair(sk, pk) == Len(sk) = 3 /\ Len(pk) = 3 /\ Tail(sk) = Tail(pk)

\* the record that the most recent parse call was given
LastRecord == wire[Dir(Peer(last.who))][last.idx]

\* whether the record's signature satisfies the key the receiver supplied:
\* no key was supplied, or the record is signed with that key's secret key
SignatureSatisfies(in, rec) ==
  \/ is_none(in.remote_pubkey_sig)
  \/ /\ is_some(rec.in.own_seckey_sig)
     /\ KeyPair(unwrap(rec.in.own_seckey_sig), unwrap(in.remote_pubkey_sig))

\* C1: whenever Bob has run parse_init_request on the frame of a successful
\* gen_init_request with the bundle's five secret keys, the call succeeded
\* and returned the initiator's id, salts, mdc seed, anchor mdc, name,
\* comment, KEM and signature public keys, and the two PFS keys crosswise.
C1_HandshakeAgreement ==
  last.op = "parse_init_request" =>
    LET g == unwrap(hs.gen)
        r == last.out
    IN  /\ r.ok
        /\ r.id = g.out.id
        /\ r.id_salt = g.out.id_salt
        /\ r.pfs_salt = g.out.pfs_salt
        /\ r.mdc_seed = g.out.mdc_seed
        /\ r.mdc = g.in.mdc
        /\ g.out.mdc = g.in.mdc
        /\ r.name = g.in.name
        /\ r.comment = g.in.comment
        /\ r.remote_pubkey_kyber = g.out.own_pubkey_kyber
        /\ r.remote_pubkey_sig = g.in.own_pubkey_sig
        /\ r.new_remote_pfs_key = g.out.own_pfs_key
        /\ r.own_pfs_key = g.out.remote_pfs_key

\* a handshake request with a comment that needs escaping has been parsed
C1_Witness ==
  /\ last.op = "parse_init_request"
  /\ last.out.ok
  /\ unwrap(hs.gen).in.comment = <<QUOTE, LF>>
  /\ unwrap(hs.gen).in.name = <<QUOTE>>

\* Alice has run parse_init_response on the record of accept_init_request,
\* with her KEM secret key and her receive PFS key
AcceptParsed ==
  /\ last.op = "parse_init_response"
  /\ LastRecord.op = "accept_init_request"
  /\ last.in.own_seckey_kyber = unwrap(hs.gen).out.own_seckey_kyber
  /\ last.in.pfs_key = unwrap(hs.gen).out.remote_pfs_key

\* accept_init_request was called with the responder's own PFS key, the id
\* and the mdc seed of the request, and returned predictable_mdc(mdc_seed, id)
AcceptMdc ==
  is_some(hs.acc) =>
    LET a == unwrap(hs.acc)
        r == unwrap(hs.req).out
    IN  /\ a.in.pfs_key = r.own_pfs_key
        /\ a.in.id = r.id
        /\ a.in.mdc_seed = r.mdc_seed
        /\ a.out.mdc = predictable_mdc_gen(unwrap(hs.gen).out.mdc_seed,
                                           unwrap(hs.gen).out.id)

\* parse_init_response succeeded and returned what accept_init_request made
AcceptAgreement ==
  LET a == unwrap(hs.acc)
  IN  /\ last.out.ok
      /\ last.out.remote_pubkey_kyber = a.out.own_pubkey_kyber
      /\ last.out.remote_pubkey_sig = a.in.own_pubkey_sig
      /\ last.out.new_pfs_key = a.out.new_pfs_key
      /\ last.out.mdc = a.out.mdc

\* C3 as stated: accept_init_request returns predictable_mdc(mdc_seed, id),
\* and parse_init_response on its record, with the initiator's KEM secret
\* key and receive PFS key, succeeds and returns the responder's keys, the
\* same new PFS key and the same mdc.
C3_AsStated == AcceptMdc /\ (AcceptParsed => AcceptAgreement)

\* C3, amended: the same, provided the signature key passed to
\* parse_init_response, if any, is the key the record was signed for.
C3_AcceptAgreement ==
  AcceptMdc /\ (AcceptParsed /\ SignatureSatisfies(last.in, LastRecord) => AcceptAgreement)

\* the accept record has been parsed with the responder's signature key
C3_Witness ==
  /\ AcceptParsed
  /\ last.in.remote_pubkey_sig = Some(bob_sig.pk)
  /\ last.out.ok
  /\ unwrap(hs.gen).in.comment = <<BACKSLASH, QUOTE>>

\* the warning of the decrypt step for the most recent parse call, "ERR"
\* when the step failed
LastWarning ==
  LET dec == decrypt_msg(last.in.own_seckey_kyber, last.in.remote_pubkey_sig,
                         last.in.pfs_key, last.in.pfs_salt,
                         LastRecord.out.ciphertext, warning_NONE)
  IN  IF dec.ok THEN dec.warning ELSE "ERR"

\* C4: when parse_msg or parse_init_response is given a signature key and
\* the decrypt step warns (signature absent or bad), the call returns an
\* error and neither content nor key nor mdc.
C4_SignatureRequired ==
  (/\ last.op \in {"parse_msg", "parse_init_response"}
   /\ is_some(last.in.remote_pubkey_sig)
   /\ LastWarning \in {warning_SIGNATURE_ABSENT, warning_SIGNATURE_BAD})
  => /\ ~last.out.ok
     /\ DOMAIN last.out \cap {"content", "new_pfs_key", "mdc", "remote_pubkey_kyber"} = {}

\* parse_msg was asked to check a signature that is there but is not the
\* asked key's
C4_Witness ==
  /\ last.op = "parse_msg"
  /\ is_some(last.in.remote_pubkey_sig)
  /\ LastWarning = warning_SIGNATURE_BAD
  /\ ~last.out.ok

\* the most recent call is parse_msg on a record of send_msg, with the key
\* and salt it was sent under and the secret key of the KEM key it was sent to
MatchingParse ==
  /\ last.op = "parse_msg"
  /\ LastRecord.op = "send_msg"
  /\ last.in.pfs_key = LastRecord.in.pfs_key
  /\ last.in.pfs_salt = LastRecord.in.pfs_salt
  /\ KeyPair(last.in.own_seckey_kyber, LastRecord.in.remote_pubkey_kyber)

\* in each direction, when as many records were received as were sent, the
\* sender's send key is the receiver's receive key
InStep ==
  \A who \in Peers :
    LET snd == Endpoint(who)
        rcv == Endpoint(Peer(who))
    IN  (snd.nsent > 0 /\ snd.nsent = rcv.nrecv) => snd.send_pfs_key = rcv.recv_pfs_key

\* C2 as stated: parse_msg with the same key and salt and the matching KEM
\* secret key succeeds on every record of send_msg and returns the new key
\* that send_msg returned; after n sends and n receives the keys agree.
C2_AsStated ==
  /\ MatchingParse => (last.out.ok /\ last.out.new_pfs_key = LastRecord.out.new_pfs_key)
  /\ InStep

\* C2, amended: the same, provided the record's signature satisfies the
\* signature key the receiver passes (none passed, or the record is signed
\* with its secret key).
C2_RatchetSync ==
  /\ (MatchingParse /\ SignatureSatisfies(last.in, LastRecord))
       => (last.out.ok /\ last.out.new_pfs_key = LastRecord.out.new_pfs_key)
  /\ InStep

\* Bob has received the second of two records from Alice, checking her
\* signature, and holds her send key
C2_Witness ==
  /\ MatchingParse
  /\ last.who = "bob"
  /\ last.idx = 2
  /\ last.in.remote_pubkey_sig = Some(alice_sig.pk)
  /\ last.out.ok
  /\ alice.nsent = 3
  /\ bob.nrecv = 3
  /\ alice.send_pfs_key = bob.recv_pfs_key

\* the most recent call is the receiver's parse_msg of the record that was
\* sent, with the signature key satisfied
Received == MatchingParse /\ SignatureSatisfies(last.in, LastRecord)

\* the content that went into the record that was parsed
Sent == LastRecord.in.content

\* the three shapes of content of C5
RoundTripShape(c) ==
  \/ c.ty = TEXT /\ is_some(c.text) /\ is_none(c.data)
  \/ c.ty = VOICE /\ is_none(c.text) /\ is_some(c.data)
  \/ c.ty = PICTURE /\ is_some(c.text) /\ is_some(c.data)

\* C5: send_msg succeeds on (TEXT, Some(t), None), (VOICE, None, Some(b))
\* and (PICTURE, Some(d), Some(b)), and the matching parse_msg returns the
\* very content that was sent.
C5_ContentRoundTrip ==
  /\ (last.op = "send_msg" /\ RoundTripShape(last.in.content)) => last.out.ok
  /\ (Received /\ RoundTripShape(Sent)) => (last.out.ok /\ last.out.content = Sent)

\* a picture of four bytes with a description that needs escaping came back
C5_Witness ==
  /\ Received
  /\ Sent = Content(PICTURE, Some(<<QUOTE, BACKSLASH, 110>>), Some(<<251, 239, 190, 62>>))
  /\ last.out.ok
  /\ last.out.content = Sent

\* lines joined by line feeds
RECURSIVE JoinLF(_)
JoinLF(ls) ==
  IF ls = <<>> THEN <<>>
  ELSE IF Len(ls) = 1 THEN ls[1]
  ELSE ls[1] \o <<LF>> \o JoinLF(Tail(ls))

\* link + "\n" + key + "\n" + description for a text of two or more lines
LinkKeyDescription(text) ==
  LET ls == lines(text)
  IN  ls[1] \o <<LF>> \o ls[2] \o <<LF>> \o JoinLF(SubSeq(ls, 3, Len(ls)))

\* a LinkedMedia message was sent and its record parsed
LinkedMediaReceived == Received /\ Sent.ty = LINKED_MEDIA

\* parse_msg returned the link, the key and the description, and the type byte
LinkedMediaParsed ==
  /\ last.out.ok
  /\ Len(unwrap(Sent.data)) = 1
  /\ Len(lines(unwrap(Sent.text))) >= 2
  /\ last.out.content = Content(LINKED_MEDIA,
                                Some(LinkKeyDescription(unwrap(Sent.text))),
                                Sent.data)

\* C6 as stated: the matching parse_msg of a LinkedMedia message returns
\* (LINKED_MEDIA, Some(link + "\n" + key + "\n" + description), Some([b])),
\* and the returned text equals the text passed to send_msg.
C6_AsStated ==
  LinkedMediaReceived =>
    (LinkedMediaParsed /\ unwrap(last.out.content.text) = unwrap(Sent.text))

\* no carriage return stands directly before a line feed
NoCRLF(t) == \A i \in 1..Len(t) - 1 : ~(t[i] = CR /\ t[i + 1] = LF)
EndsWithLF(t) == t # <<>> /\ Last(t) = LF

\* the text has no carriage return at all
NoCR(t) == \A i \in 1..Len(t) : t[i] # CR

\* C6, amended: the matching parse_msg returns (LINKED_MEDIA, Some(link +
\* "\n" + key + "\n" + description), Some([b])).  For a passed text without
\* carriage returns the returned text equals it exactly when the passed text
\* ends in a line feed if and only if it has no description line; a passed
\* text with "\r\n" in it never comes back equal.
C6_LinkedMediaRoundTrip ==
  LinkedMediaReceived =>
    LET passed == unwrap(Sent.text)
        same == unwrap(last.out.content.text) = passed
    IN  /\ LinkedMediaParsed
        /\ NoCR(passed) => (same <=> (EndsWithLF(passed) <=> Len(lines(passed)) = 2))
        /\ ~NoCRLF(passed) => ~same

\* a link, a key and a description of two lines came back as passed
C6_Witness ==
  /\ LinkedMediaReceived
  /\ Sent.text = Some(<<97, LF, 97, LF, 97, LF, 97>>)
  /\ Sent.data = Some(<<42>>)
  /\ last.out.ok
  /\ last.out.content.text = Sent.text

\* an Internal message was sent and its record parsed
InternalReceived == Received /\ Sent.ty = INTERNAL

\* C7 as stated: the matching parse_msg of an Internal message sent with
\* event code e and event data d returns the event code e and the bytes d.
C7_AsStated ==
  InternalReceived =>
    /\ last.out.ok
    /\ last.out.content.ty = INTERNAL
    /\ last.out.content.data = Sent.data
    /\ is_some(last.out.content.text)
    /\ parse_u8(unwrap(last.out.content.text)) = parse_u8(unwrap(Sent.text))

\* what parse_msg returns for it: the base64 text of the event data in the
\* text slot, no bytes, and no event code
C7_Returned ==
  InternalReceived =>
    /\ last.out.ok
    /\ last.out.content = Content(INTERNAL, Some(BASE64_encode(unwrap(Sent.data))), None)

\* event 7 with one byte of event data was sent and parsed
C7_Witness ==
  /\ InternalReceived
  /\ Sent = Content(INTERNAL, Some(<<55>>), Some(<<42>>))
  /\ last.out.ok
  /\ last.out.content = Content(INTERNAL, Some(<<75, 103>>), None)

\* C8: the mdc that a successful send_msg returns is predictable_mdc(
\* mdc_seed, id), is the mdc field of the plaintext it encrypted, and is the
\* mdc the receiver's matching parse_msg returns.
C8_MdcBinding ==
  /\ (last.op = "send_msg" /\ last.out.ok) =>
       /\ last.out.mdc = predictable_mdc_gen(last.in.mdc_seed, last.in.id)
       /\ from_str(last.out.ciphertext.pt).ok
       /\ from_str(last.out.ciphertext.pt).val.mdc = last.out.mdc
  /\ Received => (last.out.ok /\ last.out.mdc = LastRecord.out.mdc)

\* a message sent under a later id was parsed, its mdc is not the first id's
C8_Witness ==
  /\ Received
  /\ LastRecord.in.id = later_id
  /\ last.out.ok
  /\ last.out.mdc = predictable_mdc_gen(LastRecord.in.mdc_seed, later_id)
  /\ last.out.mdc # predictable_mdc_gen(LastRecord.in.mdc_seed, alice.id)

\* Alice sent two Text messages in order with the conversation's id and mdc
\* seed, the second under the key the first call returned
TwoTexts ==
  /\ Len(wire.AB) >= 2
  /\ \A i \in 1..2 :
       /\ wire.AB[i].in.content.ty = TEXT
       /\ wire.AB[i].in.id = alice.id
       /\ wire.AB[i].in.mdc_seed = alice.mdc_seed
  /\ wire.AB[2].in.pfs_key = wire.AB[1].out.new_pfs_key

\* Bob has parsed both in order, the second one just now
BobParsedBoth ==
  /\ last.op = "parse_msg"
  /\ last.who = "bob"
  /\ last.idx = 2
  /\ last.out.ok
  /\ bob.nrecv = 3

\* every key a step returned differs from the keys before it
KeysAdvance ==
  /\ wire.AB[1].out.new_pfs_key # wire.AB[1].in.pfs_key
  /\ wire.AB[2].out.new_pfs_key # wire.AB[1].out.new_pfs_key
  /\ wire.AB[2].out.new_pfs_key # wire.AB[1].in.pfs_key
  /\ BobParsedBoth =>
       /\ last.in.pfs_key = wire.AB[1].out.new_pfs_key
       /\ last.out.new_pfs_key # last.in.pfs_key
       /\ last.out.new_pfs_key = wire.AB[2].out.new_pfs_key

\* C9 as stated: the key returned by each step differs from the previous
\* one, and the mdc of the first message differs from the mdc of the second.
C9_AsStated ==
  TwoTexts => (KeysAdvance /\ wire.AB[1].out.mdc # wire.AB[2].out.mdc)

\* C9, amended: the key returned by each step differs from the previous
\* one, and the two messages carry the same mdc, predictable_mdc(mdc_seed,
\* id), which is also the mdc Bob's parse returns.
C9_TwoTexts ==
  TwoTexts =>
    /\ KeysAdvance
    /\ wire.AB[1].out.mdc = wire.AB[2].out.mdc
    /\ wire.AB[1].out.mdc = predictable_mdc_gen(alice.mdc_seed, alice.id)
    /\ BobParsedBoth => last.out.mdc = wire.AB[1].out.mdc

\* Bob has parsed the second of Alice's two texts
C9_Witness ==
  /\ TwoTexts
  /\ BobParsedBoth
  /\ wire.AB[1].out.mdc = wire.AB[2].out.mdc
  /\ bob.recv_pfs_key = alice.send_pfs_key

\* the head of a direction's chain.  From Alice to Bob: the handshake seed
\* (the curve secret the bootstrap frame is encrypted under) and the key that
\* gen_init_request returned.  From Bob to Alice: the handshake seed, which
\* is the initiator's receive key.
ChainHead(d) ==
  IF d = "AB"
  THEN <<unwrap(unwrap(hs.gen).out.ciphertext.record).key, unwrap(hs.gen).out.own_pfs_key>>
  ELSE <<unwrap(hs.gen).out.remote_pfs_key>>

\* a direction's chain: its head, then the key every record's step returned
Chain(d) == ChainHead(d) \o [i \in 1..Len(wire[d]) |-> wire[d][i].out.new_pfs_key]

Range(f) == {f[i] : i \in DOMAIN f}

\* C10: along each direction's chain no two PFS keys are equal; every step
\* takes the key the previous step returned, and the keys the two endpoints
\* hold and the keys the decrypt steps return are keys of the chain.
C10_NonRepetition ==
  is_some(hs.gen) =>
    /\ \A d \in {"AB", "BA"} :
         /\ \A i, j \in 1..Len(Chain(d)) : i # j => Chain(d)[i] # Chain(d)[j]
         /\ \A i \in 1..Len(wire[d]) :
              wire[d][i].in.pfs_key = Chain(d)[Len(ChainHead(d)) + i - 1]
    /\ alice.send_pfs_key = Last(Chain("AB"))
    /\ alice.recv_pfs_key \in Range(Chain("BA"))
    /\ bob.phase # "Idle" =>
         /\ bob.send_pfs_key = Last(Chain("BA"))
         /\ bob.recv_pfs_key \in Range(Chain("AB"))
    /\ (last.op \in {"parse_msg", "parse_init_response"} /\ last.out.ok) =>
         /\ last.out.new_pfs_key # last.in.pfs_key
         /\ last.out.new_pfs_key = LastRecord.out.new_pfs_key

\* three records went from Alice to Bob and Bob has parsed them all
C10_Witness ==
  /\ Len(wire.AB) = 3
  /\ bob.nrecv = 4
  /\ bob.recv_pfs_key = Chain("AB")[5]
  /\ alice.nrecv = 1

\* the index of the record a receiver's key is for: the first one it has
\* not yet parsed (Bob's first record from Alice is the bootstrap frame, which
\* is not on the wire list)
Expected(who) == Endpoint(who).nrecv + (IF who = "alice" THEN 1 ELSE 0)

\* what a failed call returns: neither content nor key nor mdc
NothingReturned(out) ==
  /\ ~out.ok
  /\ DOMAIN out \cap {"content", "new_pfs_key", "mdc", "ciphertext"} = {}

\* C11: parse_msg on a record other than the one the receiver's key is for
\* (a later record while an earlier one is unparsed, or a record parsed
\* before) returns the decryption error and no key; a parse_msg that
\* succeeds is on the record next in send order.
C11_OutOfOrderRejected ==
  last.op = "parse_msg" =>
    IF last.out.ok
    THEN last.idx = Expected(last.who) - 1
    ELSE /\ NothingReturned(last.out)
         /\ last.idx # Expected(last.who) => last.out = error("decryption failed")

\* Bob, with the key for Alice's first record, was given her second record
C11_Witness ==
  /\ Len(wire.AB) >= 2
  /\ last.op = "parse_msg"
  /\ last.who = "bob"
  /\ last.idx = 2
  /\ bob.nrecv = 1
  /\ last.in.pfs_key = wire.AB[1].in.pfs_key
  /\ last.out = error("decryption failed")

\* Bob, having parsed Alice's first record, was given it again
C11_Replayed ==
  /\ last.op = "parse_msg"
  /\ last.who = "bob"
  /\ last.idx = 1
  /\ bob.nrecv = 2
  /\ last.in.pfs_key = wire.AB[1].out.new_pfs_key
  /\ last.out = error("decryption failed")


(***************************************************************************)
(* Every Message variant under every parser.  Next to the callers of       *)
(* tests.rs there is a peer that holds the conversation's keys and seals   *)
(* a Message of its own choice: as the plaintext of a bootstrap frame, or  *)
(* as a record of the conversation.                                        *)
(***************************************************************************)
\* one Message of each of the seven variants (lib.rs:42-50)
Messages ==
  {InitRequestData(id_gen(<<0, 10>>), handle_mdc, kyber_keygen(<<0, 11>>).pk,
                   curve_keygen(<<0, 12>>).pk, other_sig.pk, alice_name,
                   alice_comment, encode(sym_key_gen(<<0, 13>>))),
   InitAcceptData(kyber_keygen(<<0, 11>>).pk, other_sig.pk, handle_mdc),
   MessageData(TEXT, Some(<<72, 105>>), None, handle_mdc).val,
   MessageData(INTERNAL, Some(<<55>>), Some(<<42>>), handle_mdc).val,
   MessageData(VOICE, None, Some(<<1, 2>>), handle_mdc).val,
   MessageData(PICTURE, Some(<<72>>), Some(<<1, 2>>), handle_mdc).val,
   MessageData(LINKED_MEDIA, Some(<<108, LF, 107>>), Some(<<1>>), handle_mdc).val}

\* lib.rs:135-196 with message_data in the place of the InitRequest that
\* lib.rs:169-178 builds: the frame of an initiator that seals another Message
foreign_init_request(remote_pubkey_kyber, remote_pubkey_kyber_for_salt, remote_pubkey_curve, remote_pubkey_curve_pfs_2, remote_pubkey_curve_for_salt, own_seckey_sig, message_data, rb) ==
  LET own_kyber == kyber_keygen(<<rb, 1>>)
      own_curve == curve_keygen(<<rb, 2>>)
      own_curve_for_salt == curve_keygen(<<rb, 3>>)
      id == id_gen(<<rb, 4>>)
      own_curve_pfs_2 == curve_keygen(<<rb, 5>>)
      own_pfs_key == get_curve_secret(own_curve.sk, remote_pubkey_curve)
      remote_pfs_key == get_curve_secret(own_curve_pfs_2.sk, remote_pubkey_curve_pfs_2)
      derive_salt_curve == get_curve_secret(own_curve_for_salt.sk,
                                            remote_pubkey_curve_for_salt)
      derive_salt_kyber == get_kyber_secret(remote_pubkey_kyber_for_salt, <<rb, 6>>)
      salts == derive_salts(derive_salt_curve.val, derive_salt_kyber.shared)
      mdc_seed == encode(sym_key_gen(<<rb, 7>>))
      enc == encrypt_msg(remote_pubkey_kyber, Some(own_seckey_sig),
                         own_pfs_key.val, salts.pfs_salt, to_string(message_data),
                         <<rb, 8>>)
  IN  GenInitRequestOk(own_kyber, own_curve, own_curve_for_salt, enc.new_pfs_key,
                       remote_pfs_key.val, salts, id, message_data.mdc, mdc_seed,
                       derive_salt_kyber.ct, enc.ciphertext)

\* an initiator sends Bob a bootstrap frame around message_data
ForeignInitRequest(message_data) ==
  /\ alice.phase = "Idle"
  /\ LET in == [keys |-> bob_bundle, message_data |-> message_data]
         res == foreign_init_request(bob_bundle.kyber, bob_bundle.kyber_for_salt,
                                     bob_bundle.curve, bob_bundle.curve_pfs_2,
                                     bob_bundle.curve_for_salt, alice_sig.sk,
                                     message_data, RbAlice(0))
     IN  /\ last' = [op |-> "foreign_init_request", who |-> "alice", in |-> in,
                     out |-> res]
         /\ alice' = AliceAfterGen(res)
         /\ hs' = [hs EXCEPT !.gen = Some([in |-> in, out |-> res])]
  /\ UNCHANGED <<bob, wire>>

\* who seals message_data with its send key as the next record to its peer
\* (the provider's send step, as lib.rs:442-445 calls it)
ForeignRecord(who, message_data) ==
  /\ Endpoint(who).remote_pubkey_kyber # <<>>
  /\ LET p == Endpoint(who)
         in == [message_data |-> message_data,
                remote_pubkey_kyber |-> p.remote_pubkey_kyber,
                own_seckey_sig |-> Some(SigOf(who).sk), pfs_key |-> p.send_pfs_key,
                pfs_salt |-> p.pfs_salt]
         res == encrypt_msg(in.remote_pubkey_kyber, in.own_seckey_sig, in.pfs_key,
                            in.pfs_salt, to_string(message_data),
                            <<IF who = "alice" THEN RbAlice(p.nsent) ELSE RbBob(p.nsent), 1>>)
     IN  /\ res.ok
         /\ last' = [op |-> "foreign_record", who |-> who, in |-> in, out |-> res]
         /\ wire' = [wire EXCEPT ![Dir(who)] =
                       Append(@, [op |-> "foreign_record", in |-> in, out |-> res])]
         /\ IF who = "alice"
            THEN alice' = AfterSend(alice, res) /\ bob' = bob
            ELSE bob' = AfterSend(bob, res) /\ alice' = alice
  /\ UNCHANGED hs

\* whether a record made by op is on the wire
OnWire(op) == \E d \in {"AB", "BA"} : \E i \in 1..Len(wire[d]) : wire[d][i].op = op

NextTag ==
  \/ /\ last = NoCall
     /\ GenInitRequest(bob_bundle, alice_name, alice_comment)
  \/ \E message_data \in Messages :
       /\ last = NoCall
       /\ ForeignInitRequest(message_data)
  \/ \E unasked \in Warnings : ParseInitRequest(unasked)
  \/ AcceptInitRequest
  \/ \E who \in Peers, message_data \in Messages :
       /\ ~OnWire("foreign_record")
       /\ ForeignRecord(who, message_data)
  \/ \E who \in Peers, content \in SampleContents :
       /\ ~OnWire("send_msg")
       /\ SendMsg(who, content, Some(SigOf(who).sk), Endpoint(who).id,
                  Endpoint(who).mdc_seed)
  \/ \E i \in 1..Len(wire.BA), k \in SigChecks("bob") : ParseInitResponse(i, k[1], k[2])
  \/ \E who \in Peers :
     \E i \in 1..Len(wire[Dir(Peer(who))]), k \in SigChecks(Peer(who)) :
       ParseMsg(who, i, k[1], k[2])

SpecTag == Init /\ [][NextTag]_vars

\* the variant of the Message sealed in a record
Variant(ciphertext) == ciphertext.pt.tag
\* the record a parse_msg or parse_init_response call was given
Given == wire[Dir(Peer(last.who))][last.idx].out.ciphertext

\* C12: parse_init_request succeeds only on a frame whose plaintext is an
\* InitRequest, parse_init_response only on a record whose plaintext is an
\* InitAccept, and parse_msg only on a record whose plaintext is one of the
\* five content variants: on an InitRequest or an InitAccept it fails.
C12_TagEnforced ==
  /\ last.op = "parse_init_request" /\ last.out.ok
       => Variant(unwrap(unwrap(hs.gen).out.ciphertext.record)) = "InitRequest"
  /\ last.op = "parse_init_response" /\ last.out.ok => Variant(Given) = "InitAccept"
  /\ last.op = "parse_msg" /\ last.out.ok
       => Variant(Given) \in {"Text", "Internal", "Voice", "Picture", "LinkedMedia"}
  /\ last.op = "parse_msg" /\ Variant(Given) \in {"InitRequest", "InitAccept"}
       => NothingReturned(last.out)

\* parse_init_response opened a record that holds a text message and
\* refused it for its variant
C12_Witness ==
  /\ last.op = "parse_init_response"
  /\ Variant(Given) = "Text"
  /\ last.out = error("content did not match init accept type")

\* parse_init_request opened a frame that holds an InitAccept and refused it
C12_RequestRefused ==
  /\ last.op = "parse_init_request"
  /\ Variant(unwrap(unwrap(hs.gen).out.ciphertext.record)) = "InitAccept"
  /\ last.out = error("content did not match init request type")

\* parse_msg opened a record that holds an InitRequest and refused it
C12_MsgRefused ==
  /\ last.op = "parse_msg"
  /\ Variant(Given) = "InitRequest"
  /\ last.out = error("message type not known or unexpected init message")

\* parse_msg opened the record of accept_init_request and refused it
C12_AcceptRefused ==
  /\ last.op = "parse_msg"
  /\ wire.BA[last.idx].op = "accept_init_request"
  /\ last.out = error("message type not known or unexpected init message")

\* parse_msg returned the content of each of the five content variants
C12_MsgAccepted ==
  /\ last.op = "parse_msg"
  /\ last.out.ok
  /\ Variant(Given) = "LinkedMedia"


(***************************************************************************)
(* The conversation with a responder that may also call send_msg on the    *)
(* keys of parse_init_request before it accepts.                           *)
(***************************************************************************)
\* Bob calls send_msg with what parse_init_request returned (tests.rs:42),
\* before accept_init_request
SendUnaccepted(content) ==
  /\ bob.phase = "AwaitUser"
  /\ LET in == [content |-> content, remote_pubkey_kyber |-> bob.remote_pubkey_kyber,
                own_seckey_sig |-> Some(bob_sig.sk), pfs_key |-> bob.send_pfs_key,
                pfs_salt |-> bob.pfs_salt, id |-> bob.id, mdc_seed |-> bob.mdc_seed]
         res == send_msg(content, in.remote_pubkey_kyber, in.own_seckey_sig, in.pfs_key,
                         in.pfs_salt, in.id, in.mdc_seed, <<RbBob(8), 1>>)
     IN  /\ res.ok
         /\ last' = [op |-> "send_msg", who |-> "bob", in |-> in, out |-> res]
         /\ wire' = [wire EXCEPT !.BA = Append(@, [op |-> "send_msg", in |-> in,
                                                   out |-> res])]
         /\ bob' = [bob EXCEPT !.send_pfs_key = res.new_pfs_key]
  /\ UNCHANGED <<alice, hs>>

NextOrder ==
  \/ GenInitRequest(bob_bundle, alice_name, alice_comment)
  \/ \E unasked \in Warnings : ParseInitRequest(unasked)
  \/ \E content \in SampleContents :
       /\ wire.BA = <<>>
       /\ SendUnaccepted(content)
  \/ AcceptInitRequest
  \/ \E i \in 1..Len(wire.BA), k \in SigChecks("bob") : ParseInitResponse(i, k[1], k[2])
  \/ \E who \in Peers, content \in SampleContents :
       /\ Len(wire.AB) + Len(wire.BA) < MaxMsgs
       /\ SendMsg(who, content, Some(SigOf(who).sk), Endpoint(who).id,
                  Endpoint(who).mdc_seed)
  \/ \E who \in Peers :
     \E i \in 1..Len(wire[Dir(Peer(who))]), k \in SigChecks(Peer(who)) :
       ParseMsg(who, i, k[1], k[2])

SpecOrder == Init /\ [][NextOrder]_vars

\* the record a parse call was given, with the call that produced it
GivenRecord == wire[Dir(Peer(last.who))][last.idx]

\* C13: parse_init_response succeeds only on a record that
\* accept_init_request produced, for a responder whose parse_init_request
\* succeeded on the frame gen_init_request produced for this initiator; the
\* four calls succeed in the order gen_init_request, parse_init_request,
\* accept_init_request, parse_init_response.
C13_HandshakeOrder ==
  /\ is_some(hs.resp) => is_some(hs.acc)
  /\ is_some(hs.acc) => is_some(hs.req)
  /\ is_some(hs.req) => is_some(hs.gen)
  /\ last.op = "parse_init_response" /\ last.out.ok =>
       /\ GivenRecord.op = "accept_init_request"
       /\ is_some(hs.acc)
       /\ GivenRecord.in = unwrap(hs.acc).in /\ GivenRecord.out = unwrap(hs.acc).out
       /\ GivenRecord.in.id = unwrap(hs.req).out.id
       /\ GivenRecord.in.pfs_salt = unwrap(hs.req).out.pfs_salt
       /\ GivenRecord.in.remote_pubkey_kyber = unwrap(hs.gen).out.own_pubkey_kyber
       /\ unwrap(hs.req).out.id = unwrap(hs.gen).out.id

\* parse_init_response succeeded, on the record of accept_init_request
C13_Witness ==
  /\ last.op = "parse_init_response"
  /\ last.out.ok
  /\ is_some(hs.resp)
  /\ wire.BA[last.idx].op = "accept_init_request"

\* parse_init_response opened a record that send_msg produced before the
\* responder accepted, and refused it
C13_SendRefused ==
  /\ last.op = "parse_init_response"
  /\ wire.BA[last.idx].op = "send_msg"
  /\ is_none(hs.acc)
  /\ last.out = error("content did not match init accept type")

\* parse_init_response failed to open a record that send_msg produced after
\* the responder accepted
C13_LaterRefused ==
  /\ last.op = "parse_init_response"
  /\ wire.BA[last.idx].op = "send_msg"
  /\ is_some(hs.acc)
  /\ ~last.out.ok


\* what send_msg asks of a content, by content type: Text a text; Internal
\* a text that is a u8 and bytes; Voice and Picture bytes; LinkedMedia one
\* byte and a text of two lines or more; no other content type
MeetsRequirements(content) ==
  CASE content.ty = TEXT -> is_some(content.text)
    [] content.ty = INTERNAL ->
         /\ is_some(content.text)
         /\ parse_u8(unwrap(content.text)).ok
         /\ is_some(content.data)
    [] content.ty \in {VOICE, PICTURE} -> is_some(content.data)
    [] content.ty = LINKED_MEDIA ->
         /\ is_some(content.data)
         /\ Len(unwrap(content.data)) = 1
         /\ is_some(content.text)
         /\ Len(lines(unwrap(content.text))) >= 2
    [] OTHER -> FALSE

\* a call that returned an error value and nothing else
ReturnedError(out) == NothingReturned(out) /\ ~out.panic

\* a LinkedMedia content with its one byte and a text without any line
LinkedMediaNoLine(content) ==
  /\ content.ty = LINKED_MEDIA
  /\ is_some(content.data)
  /\ Len(unwrap(content.data)) = 1
  /\ is_some(content.text)
  /\ lines(unwrap(content.text)) = <<>>

\* C14: send_msg on a content that violates the requirements of its content
\* type returns an error value and neither key nor mdc nor ciphertext.
C14_AsStated ==
  last.op = "send_msg" /\ ~MeetsRequirements(last.in.content)
    => ReturnedError(last.out)

\* send_msg was given a LinkedMedia content with one byte and the empty
\* text, and did not return
C14_Witness ==
  /\ last.op = "send_msg"
  /\ last.in.content = Content(LINKED_MEDIA, Some(<<>>), Some(<<42>>))
  /\ last.out.panic

\* send_msg returns an error value on every other content that violates
\* the requirements, and a record on every content that meets them
C14_OtherContents ==
  last.op = "send_msg" =>
    IF MeetsRequirements(last.in.content) THEN last.out.ok
    ELSE LinkedMediaNoLine(last.in.content) \/ ReturnedError(last.out)


\* what gen_init_request returns on success: keys, id, salts, mdc seed, frame
GenOutputs ==
  {"own_pubkey_kyber", "own_seckey_kyber", "own_pubkey_curve", "own_seckey_curve",
   "own_pfs_key", "remote_pfs_key", "pfs_salt", "id", "id_salt", "mdc", "mdc_seed",
   "ciphertext"}

\* C15: gen_init_request with the empty display name returns an error,
\* whatever the keys and the comment, and none of the keys, id, salts, mdc
\* seed or ciphertext.
C15_EmptyNameRejected ==
  last.op = "gen_init_request" /\ last.in.name = <<>> =>
    /\ last.out = error("name must not be empty")
    /\ DOMAIN last.out \cap GenOutputs = {}
    /\ is_none(hs.gen)

\* gen_init_request was called with Bob's bundle, a comment and the empty
\* display name, and returned an error
C15_Witness ==
  /\ last.op = "gen_init_request"
  /\ last.in.name = <<>>
  /\ last.in.keys = bob_bundle
  /\ last.in.comment # <<>>
  /\ ~last.out.ok

\* the same with five empty keys (tests.rs:186-195)
C15_EmptyKeys ==
  /\ last.op = "gen_init_request"
  /\ last.in.name = <<>>
  /\ last.in.keys = empty_bundle
  /\ ~last.out.ok


(***************************************************************************)
(* The handle codec.  A string is its UTF-8 bytes.                         *)
(***************************************************************************)
\* a UTF-8 continuation byte
IsCont(b) == b >= 128 /\ b <= 191

\* whether the bytes are well-formed UTF-8, as String::from_utf8 tests it
RECURSIVE Utf8Valid(_)
Utf8Valid(s) ==
  IF s = <<>> THEN TRUE
  ELSE LET b == s[1]
           n == Len(s)
       IN  CASE b < 128 -> Utf8Valid(Tail(s))
             [] b >= 194 /\ b <= 223 ->
                  n >= 2 /\ IsCont(s[2]) /\ Utf8Valid(SubSeq(s, 3, n))
             [] b >= 224 /\ b <= 239 ->
                  /\ n >= 3
                  /\ s[2] >= (IF b = 224 THEN 160 ELSE 128)
                  /\ s[2] <= (IF b = 237 THEN 159 ELSE 191)
                  /\ IsCont(s[3])
                  /\ Utf8Valid(SubSeq(s, 4, n))
             [] b >= 240 /\ b <= 244 ->
                  /\ n >= 4
                  /\ s[2] >= (IF b = 240 THEN 144 ELSE 128)
                  /\ s[2] <= (IF b = 244 THEN 143 ELSE 191)
                  /\ IsCont(s[3])
                  /\ IsCont(s[4])
                  /\ Utf8Valid(SubSeq(s, 5, n))
             [] OTHER -> FALSE

\* String::from_utf8
from_utf8(bytes) == IF Utf8Valid(bytes) THEN [ok |-> TRUE, val |-> bytes] ELSE [ok |-> FALSE]

\* str::split(sep): the pieces between the separators, one more than there
\* are separators
RECURSIVE split(_, _)
split(s, sep) ==
  LET i == IndexOf(s, sep, 1)
  IN  IF i = 0 THEN <<s>>
      ELSE <<SubSeq(s, 1, i - 1)>> \o split(SubSeq(s, i + 1, Len(s)), sep)

\* gen_handle with the second and the third key in each other's place
gen_handle_CurveKeysSwapped(init_pubkey_kyber, init_pubkey_curve, init_pubkey_curve_pfs_2, init_pubkey_kyber_for_salt, init_pubkey_curve_for_salt, name, mdc) ==
  encode(init_pubkey_kyber) \o <<LF>> \o encode(init_pubkey_curve_pfs_2) \o <<LF>>
    \o encode(init_pubkey_curve) \o <<LF>> \o encode(init_pubkey_kyber_for_salt)
    \o <<LF>> \o encode(init_pubkey_curve_for_salt) \o <<LF>> \o name \o <<LF>> \o mdc

\* lib.rs:471-479
gen_handle(init_pubkey_kyber, init_pubkey_curve, init_pubkey_curve_pfs_2, init_pubkey_kyber_for_salt, init_pubkey_curve_for_salt, name, mdc) ==
  encode(init_pubkey_kyber) \o <<LF>> \o encode(init_pubkey_curve) \o <<LF>>
    \o encode(init_pubkey_curve_pfs_2) \o <<LF>> \o encode(init_pubkey_kyber_for_salt)
    \o <<LF>> \o encode(init_pubkey_curve_for_salt) \o <<LF>> \o name \o <<LF>> \o mdc

\* lib.rs:489-523: the next field as a public key
KeyField(information, i) ==
  IF i > Len(information) THEN error("handle format invalid!")
  ELSE LET bytes == decode(information[i])
       IN  IF ~bytes.ok THEN error("handle format invalid!")
           ELSE [ok |-> TRUE, val |-> bytes.val]

\* lib.rs:524-531: the next field as a string
StringField(information, i) ==
  IF i > Len(information) THEN error("handle format invalid!")
  ELSE [ok |-> TRUE, val |-> information[i]]

\* lib.rs:482-533
parse_handle(handle_content) ==
  LET handle_string == from_utf8(handle_content) IN
  IF ~handle_string.ok THEN error("handle content is not valid UTF-8!")
  ELSE
  LET information == split(handle_string.val, LF)
      init_pubkey_kyber == KeyField(information, 1)
      init_pubkey_curve == KeyField(information, 2)
      init_pubkey_curve_pfs_2 == KeyField(information, 3)
      init_pubkey_kyber_for_salt == KeyField(information, 4)
      init_pubkey_curve_for_salt == KeyField(information, 5)
      name == StringField(information, 6)
      mdc == StringField(information, 7)
  IN
  IF ~init_pubkey_kyber.ok THEN init_pubkey_kyber
  ELSE IF ~init_pubkey_curve.ok THEN init_pubkey_curve
  ELSE IF ~init_pubkey_curve_pfs_2.ok THEN init_pubkey_curve_pfs_2
  ELSE IF ~init_pubkey_kyber_for_salt.ok THEN init_pubkey_kyber_for_salt
  ELSE IF ~init_pubkey_curve_for_salt.ok THEN init_pubkey_curve_for_salt
  ELSE IF ~name.ok THEN name
  ELSE IF ~mdc.ok THEN mdc
  ELSE [ok |-> TRUE,
        init_pubkey_kyber |-> init_pubkey_kyber.val,
        init_pubkey_curve |-> init_pubkey_curve.val,
        init_pubkey_curve_pfs_2 |-> init_pubkey_curve_pfs_2.val,
        init_pubkey_kyber_for_salt |-> init_pubkey_kyber_for_salt.val,
        init_pubkey_curve_for_salt |-> init_pubkey_curve_for_salt.val,
        name |-> name.val,
        mdc |-> mdc.val]

\* public-key byte strings as in tests.rs:167-171, shortened, and none
KeySamples == {<<>>, <<255, 0>>, <<5>>}
\* display names: "Test 42" (tests.rs:172), none, one of two bytes in
\* UTF-8, and two with a line feed
NameSamples ==
  {<<84, 101, 115, 116, 32, 52, 50>>, <<>>, <<195, 169>>, <<97, LF, 98>>, <<LF>>}
\* anchor mdcs: the one of mdc_gen (tests.rs:173), none, one with a line feed
MdcSamples == {handle_mdc, <<>>, <<49, LF, 50>>}

\* what goes into a handle
HandleInputs ==
  [init_pubkey_kyber : KeySamples, init_pubkey_curve : KeySamples,
   init_pubkey_curve_pfs_2 : KeySamples, init_pubkey_kyber_for_salt : KeySamples,
   init_pubkey_curve_for_salt : KeySamples, name : NameSamples, mdc : MdcSamples]

\* the most fields of a handle content
MaxFields == 8

\* a field that decodes as hex, and fields of other kinds: empty, of odd
\* length, with a letter that is no hex digit, in upper case, a byte that
\* is not UTF-8, a cut-off UTF-8 sequence, a complete one
HexField == <<97, 48>>
OtherFields ==
  {<<>>, <<48>>, <<103, 48>>, <<65, 48>>, <<255>>, <<195>>, <<195, 169>>}

RECURSIVE Join(_, _)
Join(fields, sep) ==
  IF Len(fields) = 1 THEN fields[1]
  ELSE fields[1] \o <<sep>> \o Join(Tail(fields), sep)

\* handle contents of one to MaxFields fields, all of them HexField but at
\* most one
HandleContents ==
  {Join([i \in 1..k |-> HexField], LF) : k \in 1..MaxFields}
  \cup {Join([i \in 1..k |-> IF i = j THEN f ELSE HexField], LF) :
          k \in 1..MaxFields, j \in 1..MaxFields, f \in OtherFields}

\* gen_handle is called (tests.rs:174)
GenHandle(x) ==
  /\ last' = [op |-> "gen_handle", in |-> x,
              out |-> gen_handle(x.init_pubkey_kyber, x.init_pubkey_curve,
                                 x.init_pubkey_curve_pfs_2,
                                 x.init_pubkey_kyber_for_salt,
                                 x.init_pubkey_curve_for_salt, x.name, x.mdc)]
  /\ UNCHANGED <<alice, bob, hs, wire>>

\* parse_handle is called on the handle just generated (tests.rs:175)
ParseGenerated ==
  /\ last.op = "gen_handle"
  /\ last' = [op |-> "parse_handle", in |-> last.out, x |-> Some(last.in),
              out |-> parse_handle(last.out)]
  /\ UNCHANGED <<alice, bob, hs, wire>>

\* parse_handle is called on a handle content from elsewhere
ParseHandle(handle_content) ==
  /\ last' = [op |-> "parse_handle", in |-> handle_content, x |-> None,
              out |-> parse_handle(handle_content)]
  /\ UNCHANGED <<alice, bob, hs, wire>>

NextHandle ==
  \/ \E x \in HandleInputs : last = NoCall /\ GenHandle(x)
  \/ ParseGenerated
  \/ \E handle_content \in HandleContents : last = NoCall /\ ParseHandle(handle_content)

SpecHandle == Init /\ [][NextHandle]_vars

\* what parse_handle returned, as the inputs of gen_handle
Parsed(out) == [f \in DOMAIN out \ {"ok"} |-> out[f]]

\* inputs whose handle has exactly seven fields: a display name and an
\* anchor mdc that each stay within one line
WellFormed(x) == Len(split(x.name, LF)) = 1 /\ Len(split(x.mdc, LF)) = 1

\* C16: parse_handle on the handle that gen_handle made of five public
\* keys, a display name and an anchor mdc, the seven of them well-formed (a
\* handle of exactly seven fields), succeeds and returns exactly the seven.
C16_HandleRoundTrip ==
  last.op = "parse_handle" /\ is_some(last.x) /\ WellFormed(unwrap(last.x)) =>
    /\ last.out.ok
    /\ Parsed(last.out) = unwrap(last.x)

\* the handle of tests.rs:165-183 came back: keys that differ from each
\* other, "Test 42" and the mdc of mdc_gen
C16_Witness ==
  /\ last.op = "parse_handle"
  /\ is_some(last.x)
  /\ unwrap(last.x).name = <<84, 101, 115, 116, 32, 52, 50>>
  /\ unwrap(last.x).mdc = handle_mdc
  /\ unwrap(last.x).init_pubkey_curve = <<5>>
  /\ unwrap(last.x).init_pubkey_curve_pfs_2 = <<255, 0>>
  /\ last.out.ok
  /\ Parsed(last.out) = unwrap(last.x)

\* a display name of two lines came back as its first line, with its
\* second line as the mdc
C16_TwoLineName ==
  /\ last.op = "parse_handle"
  /\ is_some(last.x)
  /\ unwrap(last.x).name = <<97, LF, 98>>
  /\ last.out.ok
  /\ last.out.name = <<97>>
  /\ last.out.mdc = <<98>>


\* the number of fields of a handle content, line feed between them
FieldCount(handle_content) == Len(split(handle_content, LF))

\* whether one of the first five fields, as far as there are, is no hex
KeyFieldInvalid(handle_content) ==
  \E i \in 1..5 :
    /\ i <= FieldCount(handle_content)
    /\ ~decode(split(handle_content, LF)[i]).ok

\* C17: parse_handle returns an error when the content is not UTF-8, when
\* it has fewer or more than seven fields, or when one of the first five
\* fields is no hex.
C17_AsStated ==
  /\ last.op = "parse_handle"
  /\ \/ ~Utf8Valid(last.in)
     \/ FieldCount(last.in) # 7
     \/ KeyFieldInvalid(last.in)
  => ReturnedError(last.out)

\* parse_handle was given eight fields of hex and returned the first seven
C17_Witness ==
  /\ last.op = "parse_handle"
  /\ last.in = Join([i \in 1..8 |-> HexField], LF)
  /\ last.out.ok
  /\ last.out.mdc = HexField

\* parse_handle returns an error when the content is not UTF-8, has fewer
\* than seven fields or a key field that is no hex, and seven values
\* otherwise
C17_FewerFields ==
  last.op = "parse_handle" =>
    IF \/ ~Utf8Valid(last.in)
       \/ FieldCount(last.in) < 7
       \/ KeyFieldInvalid(last.in)
    THEN ReturnedError(last.out) /\ last.out.pre
    ELSE last.out.ok

\* parse_handle refused bytes that are not UTF-8
C17_NotUtf8 ==
  /\ last.op = "parse_handle"
  /\ ~Utf8Valid(last.in)
  /\ FieldCount(last.in) = 7
  /\ last.out = error("handle content is not valid UTF-8!")

\* parse_handle refused six fields of hex
C17_SixFields ==
  /\ last.op = "parse_handle"
  /\ last.in = Join([i \in 1..6 |-> HexField], LF)
  /\ last.out = error("handle format invalid!")

\* parse_handle refused seven fields for a key field that is no hex
C17_NoHex ==
  /\ last.op = "parse_handle"
  /\ Utf8Valid(last.in)
  /\ FieldCount(last.in) = 7
  /\ KeyFieldInvalid(last.in)
  /\ last.out = error("handle format invalid!")


\* the public operations the conversation calls
PublicOps ==
  {"gen_init_request", "parse_init_request", "accept_init_request",
   "parse_init_response", "parse_msg", "send_msg", "parse_handle"}

\* C18: every error value a public operation returns begins with
\* "@dawn-stdlib: ", the errors that come from the crypto provider included.
C18_AsStated ==
  last.op \in PublicOps /\ ~last.out.ok /\ ~last.out.panic => last.out.pre

\* gen_init_request was given a display name and five empty keys, and
\* returned the error of the provider's DH step as the provider worded it
C18_Witness ==
  /\ last.op = "gen_init_request"
  /\ last.in.name # <<>>
  /\ last.in.keys = empty_bundle
  /\ last.out = ProviderErr("curve secret failed")

\* parse_init_response failed to decrypt and returned the provider's error
C18_ResponseUndecrypted ==
  /\ last.op = "parse_init_response"
  /\ last.out = ProviderErr("decryption failed: aead")

\* parse_msg replaces the provider's error by one of its own (lib.rs:331-334)
C18_ParseMsgOwnError ==
  last.op = "parse_msg" /\ ~last.out.ok => last.out.pre


(***************************************************************************)
(* Several initiators against Bob's one init bundle.  wire.AB holds the    *)
(* frames in the order they were made, wire.BA the calls of                *)
(* parse_init_request in the order Bob made them.                          *)
(***************************************************************************)
\* the most initiators
MaxInitiators == 3

\* the signature key pair of the n-th initiator
InitiatorSig(n) == IF n = 0 THEN alice_sig ELSE other_sig

\* the n-th initiator calls gen_init_request against Bob's bundle, with its
\* own RNG draws
GenFrame(n, name, comment) ==
  /\ n = Len(wire.AB)
  /\ LET in == [keys |-> bob_bundle, own_pubkey_sig |-> InitiatorSig(n).pk,
                name |-> name, comment |-> comment, mdc |-> handle_mdc]
         res == gen_init_request(bob_bundle.kyber, bob_bundle.kyber_for_salt,
                                 bob_bundle.curve, bob_bundle.curve_pfs_2,
                                 bob_bundle.curve_for_salt, InitiatorSig(n).pk,
                                 InitiatorSig(n).sk, name, comment, handle_mdc,
                                 RbAlice(n))
     IN  /\ res.ok
         /\ last' = [op |-> "gen_init_request", who |-> "alice", in |-> in, out |-> res]
         /\ wire' = [wire EXCEPT !.AB = Append(@, [op |-> "gen_init_request",
                                                   in |-> in, out |-> res])]
  /\ UNCHANGED <<alice, bob, hs>>

\* Bob calls parse_init_request on the i-th frame with the bundle's five
\* secret keys
ParseFrame(i, unasked) ==
  /\ i \in 1..Len(wire.AB)
  /\ LET res == parse_init_request(wire.AB[i].out.ciphertext, bob_init_kyber.sk,
                                   bob_init_curve.sk, bob_init_curve_pfs_2.sk,
                                   bob_init_kyber_for_salt.sk,
                                   bob_init_curve_for_salt.sk, unasked)
     IN  /\ last' = [op |-> "parse_init_request", who |-> "bob", idx |-> i, out |-> res]
         /\ wire' = [wire EXCEPT !.BA = Append(@, [op |-> "parse_init_request",
                                                   idx |-> i, out |-> res])]
  /\ UNCHANGED <<alice, bob, hs>>

NextBundle ==
  \/ \E n \in 0..MaxInitiators - 1, comment \in {<<>>, alice_comment} :
       GenFrame(n, alice_name, comment)
  \/ \E i \in 1..MaxInitiators, unasked \in Warnings :
       /\ Len(wire.BA) < MaxMsgs
       /\ ParseFrame(i, unasked)

SpecBundle == Init /\ [][NextBundle]_vars

\* whether parse_init_request returned r for the frame of the call g of
\* gen_init_request: its id, salts, mdc seed, KEM key and PFS keys
YieldsOwn(r, g) ==
  /\ r.ok
  /\ r.id = g.out.id
  /\ r.id_salt = g.out.id_salt
  /\ r.pfs_salt = g.out.pfs_salt
  /\ r.mdc_seed = g.out.mdc_seed
  /\ r.name = g.in.name
  /\ r.comment = g.in.comment
  /\ r.remote_pubkey_kyber = g.out.own_pubkey_kyber
  /\ r.remote_pubkey_sig = g.in.own_pubkey_sig
  /\ r.new_remote_pfs_key = g.out.own_pfs_key
  /\ r.own_pfs_key = g.out.remote_pfs_key

\* C19: every call of parse_init_request with the bundle's five secret keys,
\* on any of the frames made against the bundle and in any order, succeeds
\* and returns the id, salts, mdc seed and PFS keys of that frame's
\* initiator, which no other initiator has.
C19_BundleReuse ==
  /\ \A k \in 1..Len(wire.BA) : YieldsOwn(wire.BA[k].out, wire.AB[wire.BA[k].idx])
  /\ \A i, j \in 1..Len(wire.AB) :
       i # j => /\ wire.AB[i].out.id # wire.AB[j].out.id
                /\ wire.AB[i].out.pfs_salt # wire.AB[j].out.pfs_salt
                /\ wire.AB[i].out.mdc_seed # wire.AB[j].out.mdc_seed
                /\ wire.AB[i].out.own_pfs_key # wire.AB[j].out.own_pfs_key
                /\ wire.AB[i].out.remote_pfs_key # wire.AB[j].out.remote_pfs_key

\* Bob parsed the third frame, then the first, then the third again
C19_Witness ==
  /\ Len(wire.AB) = 3
  /\ Len(wire.BA) = 3
  /\ wire.BA[1].idx = 3
  /\ wire.BA[2].idx = 1
  /\ wire.BA[3].idx = 3
  /\ wire.BA[1].out.ok
  /\ wire.BA[2].out.ok
  /\ wire.BA[3].out = wire.BA[1].out
  /\ wire.BA[2].out.id # wire.BA[1].out.id


(***************************************************************************)
(* Request bodies of every length up to the bootstrap frame's and a few    *)
(* bytes beyond.                                                           *)
(***************************************************************************)
\* the most bytes a request body has beyond the frame's three prefixes
MaxExtra == 2

\* the first n raw bytes of a frame, without its record
Truncated(frame, n) == Bytes(SubSeq(frame.raw, 1, n), None)
\* n bytes of zero
Zeros(n) == Bytes([i \in 1..n |-> 0], None)

\* The request bodies made of a frame: the frame, its three prefixes cut
\* off at every length, the prefixes with bytes behind them that are no
\* record, with and without the record behind those, and bodies of zero
\* bytes of every length.
RequestBodies(frame) ==
  {frame}
  \cup {Truncated(frame, n) : n \in 0..Len(frame.raw)}
  \cup {Bytes(frame.raw \o [i \in 1..n |-> 7], r) :
          n \in 1..MaxExtra, r \in {None, frame.record}}
  \cup {Zeros(n) : n \in 0..Len(frame.raw) + MaxExtra}

\* Bob calls parse_init_request on a request body, with the bundle's
\* secret keys
ParseRequestBody(request_body) ==
  /\ bob.phase = "Idle"
  /\ LET res == parse_init_request(request_body, bob_init_kyber.sk,
                                   bob_init_curve.sk, bob_init_curve_pfs_2.sk,
                                   bob_init_kyber_for_salt.sk,
                                   bob_init_curve_for_salt.sk, warning_NONE)
     IN  /\ last' = [op |-> "parse_init_request", who |-> "bob",
                     in |-> request_body, out |-> res]
         /\ IF res.ok
            THEN /\ bob' = BobAfterRequest(res)
                 /\ hs' = [hs EXCEPT !.req = Some([out |-> res])]
            ELSE UNCHANGED <<bob, hs>>
  /\ UNCHANGED <<alice, wire>>

NextFrame ==
  \/ /\ last = NoCall
     /\ GenInitRequest(bob_bundle, alice_name, alice_comment)
  \/ /\ last.op = "gen_init_request"
     /\ \E request_body \in RequestBodies(last.out.ciphertext) :
          ParseRequestBody(request_body)

SpecFrame == Init /\ [][NextFrame]_vars

\* C20: parse_init_request returns the error of the length test, and
\* nothing of what the key operations yield, for every request body of at
\* most 2*32 + 1568 bytes, and goes on to the key operations and the
\* parsing exactly for the longer ones.
C20_LengthCheck ==
  last.op = "parse_init_request" =>
    IF len(last.in) <= 2 * 32 + 1568
    THEN last.out = error("request was too short!") /\ bob = Idle
    ELSE last.out # error("request was too short!")

\* parse_init_request refused the three prefixes of a frame without a byte
\* behind them: 2*32 + 1568 bytes
C20_Witness ==
  /\ last.op = "parse_init_request"
  /\ last.in = Truncated(unwrap(hs.gen).out.ciphertext, 2 * 32 + 1568)
  /\ len(last.in) = 2 * 32 + 1568
  /\ last.out = error("request was too short!")

\* parse_init_request went on with a body of one byte more and failed at
\* the first key operation
C20_OneMore ==
  /\ last.op = "parse_init_request"
  /\ last.in = Zeros(2 * 32 + 1568 + 1)
  /\ last.out = ProviderErr("curve secret failed")

\* parse_init_request went on with the frame and succeeded
C20_Frame ==
  /\ last.op = "parse_init_request"
  /\ last.in = unwrap(hs.gen).out.ciphertext
  /\ len(last.in) = 2 * 32 + 1568 + 1
  /\ last.out.ok


(***************************************************************************)
(* The conversation as tests.rs holds it: the callers keep every key a     *)
(* call returned in a variable of its own, and tests.rs:122 and 125 pass   *)
(* the key of the call before the last one.                                *)
(***************************************************************************)
\* the key that the step which returned key took, in direction d
KeyBefore(d, key) ==
  LET i == CHOOSE i \in 1..Len(wire[d]) : wire[d][i].out.new_pfs_key = key
  IN  wire[d][i].in.pfs_key
\* whether a send_msg record of direction d returned key
ReturnedBySend(d, key) ==
  \E i \in 1..Len(wire[d]) : wire[d][i].op = "send_msg" /\ wire[d][i].out.new_pfs_key = key

\* who calls send_msg with the key it passed to its previous send_msg
\* (tests.rs:122) and keeps the returned key
SendMsgAgain(who, content) ==
  /\ Endpoint(who).phase = "Established"
  /\ ReturnedBySend(Dir(who), Endpoint(who).send_pfs_key)
  /\ LET p == Endpoint(who)
         in == [content |-> content, remote_pubkey_kyber |-> p.remote_pubkey_kyber,
                own_seckey_sig |-> Some(SigOf(who).sk),
                pfs_key |-> KeyBefore(Dir(who), p.send_pfs_key),
                pfs_salt |-> p.pfs_salt, id |-> p.id, mdc_seed |-> p.mdc_seed]
         res == send_msg(content, in.remote_pubkey_kyber, in.own_seckey_sig, in.pfs_key,
                         in.pfs_salt, in.id, in.mdc_seed,
                         <<IF who = "alice" THEN RbAlice(p.nsent) ELSE RbBob(p.nsent), 1>>)
     IN  /\ res.ok
         /\ last' = [op |-> "send_msg", who |-> who, in |-> in, out |-> res]
         /\ wire' = [wire EXCEPT ![Dir(who)] =
                       Append(@, [op |-> "send_msg", in |-> in, out |-> res])]
         /\ IF who = "alice"
            THEN alice' = AfterSend(alice, res) /\ bob' = bob
            ELSE bob' = AfterSend(bob, res) /\ alice' = alice
  /\ UNCHANGED hs

\* who calls parse_msg on the i-th record sent to it with the key it passed
\* to its previous parse_msg (tests.rs:125) and keeps the returned key
ParseMsgAgain(who, i) ==
  /\ Endpoint(who).phase = "Established"
  /\ i \in 1..Len(wire[Dir(Peer(who))])
  /\ ReturnedBySend(Dir(Peer(who)), Endpoint(who).recv_pfs_key)
  /\ LET p == Endpoint(who)
         in == [own_seckey_kyber |-> p.own_seckey_kyber,
                remote_pubkey_sig |-> Some(SigOf(Peer(who)).pk),
                pfs_key |-> KeyBefore(Dir(Peer(who)), p.recv_pfs_key),
                pfs_salt |-> p.pfs_salt]
         res == parse_msg(wire[Dir(Peer(who))][i].out.ciphertext, in.own_seckey_kyber,
                          in.remote_pubkey_sig, in.pfs_key, in.pfs_salt, warning_NONE)
     IN  /\ last' = [op |-> "parse_msg", who |-> who, idx |-> i, in |-> in, out |-> res]
         /\ IF res.ok
            THEN IF who = "alice"
                 THEN alice' = AfterParse(alice, res) /\ bob' = bob
                 ELSE bob' = AfterParse(bob, res) /\ alice' = alice
            ELSE UNCHANGED <<alice, bob>>
  /\ UNCHANGED <<hs, wire>>

\* the content of tests.rs:122: a voice message
VoiceContents == {Content(VOICE, None, Some(<<1, 3>>))}

NextTest ==
  \/ GenInitRequest(bob_bundle, alice_name, alice_comment)
  \/ ParseInitRequest(warning_NONE)
  \/ AcceptInitRequest
  \/ \E i \in 1..Len(wire.BA) : ParseInitResponse(i, None, warning_NONE)
  \/ \E who \in Peers, content \in SampleContents :
       /\ NSends < MaxMsgs
       /\ SendMsg(who, content, Some(SigOf(who).sk), Endpoint(who).id,
                  Endpoint(who).mdc_seed)
  \/ \E who \in Peers, content \in VoiceContents :
       /\ NSends < MaxMsgs
       /\ SendMsgAgain(who, content)
  \/ \E who \in Peers :
     \E i \in 1..Len(wire[Dir(Peer(who))]) :
       ParseMsg(who, i, Some(SigOf(Peer(who)).pk), warning_NONE)
  \/ \E who \in Peers :
     \E i \in 1..Len(wire[Dir(Peer(who))]) :
       /\ Endpoint(who).nrecv <= MaxMsgs
       /\ ParseMsgAgain(who, i)

SpecTest == Init /\ [][NextTest]_vars

\* the keys that sealed the records of direction d, the bootstrap frame's
\* first where Alice is the sender
SealedUnder(d) ==
  (IF d = "AB" /\ is_some(hs.gen)
   THEN <<unwrap(unwrap(hs.gen).out.ciphertext.record).key>> ELSE <<>>)
  \o [i \in 1..Len(wire[d]) |-> wire[d][i].in.pfs_key]

\* C21: no PFS key seals two records, and the key a sender holds after a
\* step is the one the step returned, not one that sealed a record before.
C21_AsStated ==
  /\ \A d \in {"AB", "BA"} :
       \A i, j \in 1..Len(SealedUnder(d)) :
         i # j => SealedUnder(d)[i] # SealedUnder(d)[j]
  /\ \A who \in Peers :
       Endpoint(who).phase = "Established" =>
         Endpoint(who).send_pfs_key \notin Range(SealedUnder(Dir(who)))

\* as in tests.rs:88-132: two records from Alice are sealed under the same
\* key, and Bob has parsed both of them with that key
C21_Witness ==
  /\ Len(wire.AB) = 3
  /\ wire.AB[2].in.pfs_key = wire.AB[3].in.pfs_key
  /\ wire.AB[2].in.content.ty = TEXT
  /\ wire.AB[3].in.content.ty = VOICE
  /\ last.op = "parse_msg"
  /\ last.who = "bob"
  /\ last.idx = 3
  /\ last.in.pfs_key = wire.AB[2].in.pfs_key
  /\ last.out.ok
  /\ bob.nrecv = 4
  /\ bob.recv_pfs_key = alice.send_pfs_key

\* with callers that pass each key once, the key they hold, no key seals
\* two records
C21_EachKeyOnce ==
  \A d \in {"AB", "BA"} :
    \A i, j \in 1..Len(SealedUnder(d)) :
      i # j => SealedUnder(d)[i] # SealedUnder(d)[j]


(***************************************************************************)
(* C22: the conversation constants and the two directions' keys.           *)
(***************************************************************************)
\* the names of the conversation constants
ConstantNames == {"id", "id_salt", "pfs_salt", "mdc_seed"}
\* the conversation constants an endpoint holds
ConstantsOf(p) == [n \in ConstantNames |-> p[n]]
\* the operations that send a record and those that receive one
SendOps == {"accept_init_request", "send_msg"}
ReceiveOps == {"parse_init_response", "parse_msg"}

\* what a step of the operation last' names leaves alone
ConstantsKept ==
  last'.op \in SendOps \cup ReceiveOps =>
    /\ DOMAIN last'.out \cap ConstantNames = {}
    /\ ConstantsOf(alice') = ConstantsOf(alice)
    /\ ConstantsOf(bob') = ConstantsOf(bob)
    /\ last'.op \in SendOps =>
          /\ alice'.recv_pfs_key = alice.recv_pfs_key
          /\ bob'.recv_pfs_key = bob.recv_pfs_key
          /\ last'.who = "alice" => bob'.send_pfs_key = bob.send_pfs_key
          /\ last'.who = "bob" => alice'.send_pfs_key = alice.send_pfs_key
    /\ last'.op \in ReceiveOps =>
          /\ alice'.send_pfs_key = alice.send_pfs_key
          /\ bob'.send_pfs_key = bob.send_pfs_key
          /\ last'.who = "alice" => bob'.recv_pfs_key = bob.recv_pfs_key
          /\ last'.who = "bob" => alice'.recv_pfs_key = alice.recv_pfs_key

\* C22: accept_init_request, parse_init_response, send_msg and parse_msg
\* return no id, id_salt, pfs_salt or mdc_seed and leave those of both
\* endpoints as they are; a send step changes no receive key and not the
\* peer's send key, a receive step no send key and not the peer's receive
\* key.
C22_ConversationConstants == [][ConstantsKept]_vars

\* both endpoints have sent and received messages after the handshake, the
\* last step was Bob's successful parse_msg, and both still hold the
\* constants that gen_init_request returned
C22_Witness ==
  /\ last.op = "parse_msg" /\ last.who = "bob" /\ last.out.ok
  /\ alice.nsent >= 2 /\ alice.nrecv >= 2 /\ bob.nsent >= 2 /\ bob.nrecv >= 2
  /\ bob.recv_pfs_key = last.out.new_pfs_key
  /\ bob.recv_pfs_key # last.in.pfs_key
  /\ bob.send_pfs_key = wire.BA[Len(wire.BA)].out.new_pfs_key
  /\ \A n \in ConstantNames :
       alice[n] = unwrap(hs.gen).out[n] /\ bob[n] = unwrap(hs.gen).out[n]

(***************************************************************************)
(* C23: a picture sent without a text.                                     *)
(***************************************************************************)
\* a content of the shape (PICTURE, None, Some(b))
PictureWithoutText(c) == c.ty = PICTURE /\ is_none(c.text) /\ is_some(c.data)

\* C23: send_msg succeeds on (PICTURE, None, Some(b)) for every b, and the
\* matching parse_msg returns PICTURE, the empty description and b.
C23_PictureWithoutText ==
  /\ (last.op = "send_msg" /\ PictureWithoutText(last.in.content)) => last.out.ok
  /\ (Received /\ PictureWithoutText(Sent))
       => /\ last.out.ok
          /\ last.out.content = Content(PICTURE, Some(<<>>), Sent.data)

\* a picture of four bytes sent without a text came back with the empty
\* description
C23_Witness ==
  /\ Received
  /\ Sent = Content(PICTURE, None, Some(<<251, 239, 190, 62>>))
  /\ last.out.ok
  /\ last.out.content.text = Some(<<>>)
  /\ last.out.content.data = Some(<<251, 239, 190, 62>>)

(***************************************************************************)
(* C24: the signature of the bootstrap frame's record.  Alice declares a   *)
(* signature key in the request and signs the record; the frame reaches    *)
(* Bob with that signature, with another one or with none.                 *)
(***************************************************************************)
\* the signature keys an initiator may declare in the request
DeclaredKeys == {alice_sig.pk, other_sig.pk}
\* what the signature field of a record may hold: nothing, Alice's
\* signature or another signer's
RecordSignatures == {<<>>, sig_sign(alice_sig.sk), sig_sign(other_sig.sk)}

\* the frame with sig as the signature of its record
WithSignature(frame, sig) ==
  Bytes(frame.raw, Some([unwrap(frame.record) EXCEPT !.sig = sig]))

\* Alice calls gen_init_request declaring own_pubkey_sig and signing with
\* her own secret key
GenInitRequestAs(own_pubkey_sig, name, comment) ==
  /\ alice.phase = "Idle"
  /\ last = NoCall
  /\ LET keys == bob_bundle
         in == [keys |-> keys, own_pubkey_sig |-> own_pubkey_sig, name |-> name,
                comment |-> comment, mdc |-> handle_mdc]
         res == gen_init_request(keys.kyber, keys.kyber_for_salt, keys.curve,
                                 keys.curve_pfs_2, keys.curve_for_salt,
                                 own_pubkey_sig, alice_sig.sk, name, comment,
                                 handle_mdc, RbAlice(0))
     IN  /\ last' = [op |-> "gen_init_request", who |-> "alice", in |-> in, out |-> res]
         /\ IF res.ok
            THEN /\ alice' = AliceAfterGen(res)
                 /\ hs' = [hs EXCEPT !.gen = Some([in |-> in, out |-> res])]
            ELSE UNCHANGED <<alice, hs>>
  /\ UNCHANGED <<bob, wire>>

\* what parse_init_request returns to Bob for a frame
ParsedByBob(frame, unasked) ==
  parse_init_request(frame, bob_init_kyber.sk, bob_init_curve.sk,
                     bob_init_curve_pfs_2.sk, bob_init_kyber_for_salt.sk,
                     bob_init_curve_for_salt.sk, unasked)

\* Bob parses the bootstrap frame as it arrives with sig on its record
ParseInitRequestWith(sig, unasked) ==
  /\ bob.phase = "Idle"
  /\ is_some(hs.gen)
  /\ LET res == ParsedByBob(WithSignature(unwrap(hs.gen).out.ciphertext, sig), unasked)
     IN  /\ last' = [op |-> "parse_init_request", who |-> "bob", sig |-> sig,
                     unasked |-> unasked, out |-> res]
         /\ IF res.ok
            THEN /\ bob' = BobAfterRequest(res)
                 /\ hs' = [hs EXCEPT !.req = Some([out |-> res])]
            ELSE UNCHANGED <<bob, hs>>
  /\ UNCHANGED <<alice, wire>>

NextSig ==
  \/ \E own_pubkey_sig \in DeclaredKeys, name \in Names, comment \in Comments :
       GenInitRequestAs(own_pubkey_sig, name, comment)
  \/ \E sig \in RecordSignatures, unasked \in Warnings :
       ParseInitRequestWith(sig, unasked)

SpecSig == Init /\ [][NextSig]_vars

\* the signature that verifies under the key the request declares
ValidSignature ==
  CHOOSE sig \in RecordSignatures : sig_verify(unwrap(hs.gen).in.own_pubkey_sig, sig)

\* C24: whatever the record's signature (none, one that does not verify
\* under the declared key, or a valid one), parse_init_request succeeds,
\* returns what it returns for the validly signed frame, and returns the
\* signature key that the request declares.
C24_SignatureUnchecked ==
  last.op = "parse_init_request" =>
    LET g == unwrap(hs.gen) IN
    /\ last.out.ok
    /\ last.out = ParsedByBob(WithSignature(g.out.ciphertext, ValidSignature),
                              warning_NONE)
    /\ last.out.remote_pubkey_sig = g.in.own_pubkey_sig

\* Bob accepted a frame without a signature whose request declares the
\* other signer's key, while the provider reported the absent signature
C24_Witness ==
  /\ last.op = "parse_init_request"
  /\ last.sig = <<>>
  /\ last.unasked = warning_SIGNATURE_ABSENT
  /\ last.out.ok
  /\ last.out.remote_pubkey_sig = other_sig.pk
  /\ bob.phase = "AwaitUser"
  /\ bob.remote_pubkey_sig = other_sig.pk

\* Bob accepted a frame whose signature does not verify under the declared
\* key
C24_InvalidAccepted ==
  /\ last.op = "parse_init_request"
  /\ last.sig # <<>>
  /\ ~sig_verify(unwrap(hs.gen).in.own_pubkey_sig, last.sig)
  /\ last.out.ok
  /\ bob.remote_pubkey_sig = unwrap(hs.gen).in.own_pubkey_sig

(***************************************************************************)
(* C25: the mdc on the receiving side.  After the handshake a sender       *)
(* passes send_msg the conversation's id and mdc seed or other ones, as    *)
(* tests.rs:152 passes the handle's mdc for the seed.                      *)
(***************************************************************************)
\* an mdc seed that belongs to no conversation
other_mdc_seed == encode(sym_key_gen(<<0, 11>>))
\* the ids and the mdc seeds a sender may pass
SenderIds(who) == {Endpoint(who).id, later_id}
SenderSeeds(who) == {Endpoint(who).mdc_seed, handle_mdc, other_mdc_seed}

NextSeed ==
  \/ \E who \in Peers, content \in SampleContents \cup VoiceContents :
     \E id \in SenderIds(who), mdc_seed \in SenderSeeds(who) :
       /\ NoSendYet
       /\ SendMsg(who, content, Some(SigOf(who).sk), id, mdc_seed)
  \/ \E who \in Peers :
     \E k \in SigChecks(Peer(who)) :
       /\ NSends = 1
       /\ wire[Dir(Peer(who))] # <<>>
       /\ Last(wire[Dir(Peer(who))]).op = "send_msg"
       /\ ParseMsg(who, Len(wire[Dir(Peer(who))]), k[1], k[2])

SpecSeed == InitMsg /\ [][NextSeed]_vars

\* the mdc the receiver of the most recent call would compute itself
OwnMdc == predictable_mdc_gen(Endpoint(last.who).mdc_seed, Endpoint(last.who).id)

\* C25: the receiver's matching parse_msg succeeds whatever mdc seed and id
\* the sender built the record with, and returns the mdc field of the
\* plaintext, which is the mdc that send_msg returned to the sender.
C25_MdcNotValidated ==
  Received =>
    /\ last.out.ok
    /\ last.out.mdc = from_str(LastRecord.out.ciphertext.pt).val.mdc
    /\ last.out.mdc = LastRecord.out.mdc

\* Bob parsed a record that Alice built with the handle's mdc for the seed:
\* the mdc he got is hers and not the one of his own seed and id
C25_Witness ==
  /\ Received
  /\ last.who = "bob"
  /\ LastRecord.in.mdc_seed = handle_mdc
  /\ LastRecord.in.mdc_seed # bob.mdc_seed
  /\ LastRecord.in.id = bob.id
  /\ last.out.ok
  /\ last.out.mdc = LastRecord.out.mdc
  /\ last.out.mdc # OwnMdc

\* the same for a record built with another id
C25_OtherId ==
  /\ Received
  /\ LastRecord.in.id # Endpoint(last.who).id
  /\ LastRecord.in.mdc_seed = Endpoint(last.who).mdc_seed
  /\ last.out.ok
  /\ last.out.mdc = LastRecord.out.mdc
  /\ last.out.mdc # OwnMdc

(***************************************************************************)
(* C26: a record that the receiver does not parse.                         *)
(***************************************************************************)
\* the receiver of direction d
Receiver(d) == IF d = "AB" THEN bob ELSE alice

\* direction d is out of step: its receiver holds the key of a record that
\* is not the last one sent, so that record was not parsed and later ones
\* were sent
OutOfStep(d) ==
  \E j \in 1..(Len(wire[d]) - 1) : wire[d][j].in.pfs_key = Receiver(d).recv_pfs_key

\* the most recent call is parse_msg on a record sent later than the one
\* whose key the receiver passed
LaterThanLost ==
  /\ last.op = "parse_msg"
  /\ \E j \in 1..(last.idx - 1) :
       wire[Dir(Peer(last.who))][j].in.pfs_key = last.in.pfs_key

\* C26: while the receiver has not parsed a record, parse_msg fails on
\* every record sent after it and leaves the receiver with the key it had;
\* in the opposite direction send_msg succeeds and the matching parse_msg
\* succeeds.
C26_LostRecord ==
  /\ LaterThanLost =>
       /\ ~last.out.ok
       /\ NothingReturned(last.out)
       /\ Endpoint(last.who).recv_pfs_key = last.in.pfs_key
  /\ \A who \in Peers :
       OutOfStep(Dir(who)) =>
         /\ (last.op = "send_msg" /\ last.who = Peer(who)) => last.out.ok
         /\ (Received /\ last.who = who) => last.out.ok

\* Alice sent two records, none of which Bob has parsed, Bob sent one that
\* Alice parsed, and Bob's parse_msg of Alice's second record failed
C26_Witness ==
  /\ LaterThanLost
  /\ last.who = "bob"
  /\ last.idx = 2
  /\ ~last.out.ok
  /\ bob.recv_pfs_key = wire.AB[1].in.pfs_key
  /\ bob.nrecv = 1
  /\ alice.nsent = 3
  /\ bob.nsent = 2
  /\ alice.nrecv = 2
  /\ alice.recv_pfs_key = bob.send_pfs_key

\* with Alice's direction out of step, Alice parsed Bob's record
C26_OppositeSucceeds ==
  /\ OutOfStep("AB")
  /\ Received
  /\ last.who = "alice"
  /\ last.idx = 2
  /\ last.out.ok
  /\ alice.recv_pfs_key = bob.send_pfs_key
====
